---- MODULE Spec2Model ----
(***************************************************************************)
(* Verification model of the fortio load generator fork:                   *)
(*   - pkg/stats: Counter and Histogram (record, Export, Transfer, Merge)  *)
(*   - ui: progress store, SSE subscribers, run monitor, UI Handler        *)
(*   - periodic runner and Aborter as used by the protocol adapters        *)
(*                                                                         *)
(* Numbers.  float64 values are modelled on an integer grid: a value is an *)
(* integer number of units, Offset and Divider are integers in the same    *)
(* unit.  Where the code divides, the quotient is kept as an exact         *)
(* fraction num/den.  The argument of Histogram.record additionally        *)
(* carries `fine`, a non-negative excess in quanta of 1e-13, so that the   *)
(* 1e-12 test of record is modelled by what it does.                       *)
(***************************************************************************)
EXTENDS Integers, Sequences, FiniteSets, TLC

VARIABLES
    hists,      \* the histograms "a", "b", "t" (t holds the result of Merge / Clone)
    ops,        \* number of histogram operations done so far
    panicked,   \* a runtime panic (index out of range) ended the process
    wide,       \* a histogram that only receives the value 0: Count (64 bit) and cell 0
    fpc,        \* pure-function check: "idle", "ready" (input drawn) or "done"
    fin,        \* input of the pure function under check
    fout,       \* its output
    plan,       \* ui: the observers that may connect and the ticks the monitor may make
    hpc,        \* ui: position of the UI Handler running the test
    mpc,        \* ui: position of the goroutine of startRunMonitor
    stopCalls,  \* ui: number of calls of the stop function of startRunMonitor
    runErr,     \* ui: what rapi.Run returned: "none" (not yet), "nil" or "err"
    now,        \* ui: time since startTime, in monitor ticks
    nticks,     \* ui: ticks of the monitor's ticker taken so far
    store,      \* ui: progressStore.runs[runID]
    pub,        \* ui: the UpdateProgress call in progress
    reg,        \* ui: sseSubscribers.clients[runID]: backing array and length
    lock,       \* ui: holder of the write lock of sseSubscribers over several steps
    rem,        \* ui: the removeSubscriber call holding the lock
    chans,      \* ui: the channel of every observer
    spc,        \* ui: position of the ProgressSSEHandler of every observer
    last,       \* ui: the last snapshot sent to every observer
    crashed,    \* ui: a panic outside a request handler ended the process
    offers,     \* ui: per observer, what the latest notifySubscribers offered it
    pubRegs,    \* ui: the observers registered when the latest notifySubscribers began
    terminal,   \* ui: the terminal snapshot published by the stop function
    cfg,        \* monitor: the implementation started and its expectedSeconds
    mon,        \* monitor: "idle", "running" or "stopped"
    elapsed,    \* monitor: time.Since(startTime) at the latest tick or stop
    progress,   \* monitor: the LiveProgress published last, with its ProgressPercent
    ropt,       \* runner: the RunnerOptions of the run (Exactly, Duration, NumThreads, paced)
    rpc,        \* runner: position of the protocol adapter (RunKafkaTest)
    ci,         \* runner: number of per-thread clients created so far
    warm,       \* runner: warm-up calls made while creating the clients
    wpc,        \* runner: position of every worker
    counter,    \* runner: the shared atomic counter of reserved calls
    calls,      \* runner: number of Run invocations of every worker
    after,      \* runner: Run invocations of every worker begun after the stop channel closed
    stopped,    \* Aborter: the stopped flag
    mu,         \* Aborter: holder of the mutex
    stopCloses, \* Aborter: number of times the stop channel has been closed
    apc,        \* Aborter: position of every Abort() call
    abortFailed,\* Aborter: an Abort() call panicked (close of a closed channel)
    rclock,     \* runner: time since t0
    cleanEnd,   \* runner: the run ended with the stop channel still open
    retCodes,   \* adapter: kafkastate[i].RetCodes of every thread
    whist,      \* runner: Count of the latency histogram of every worker
    live,       \* LiveStats: the handle of the run (total, success, errors), or NoLive
    kafkaTotal, \* adapter: total, the aggregated results (RetCodes, histogram Count)
    finalStats, \* ui: the request counts of the final snapshot, or NoStats
    closedClients \* adapter: per-thread clients closed after a failed client creation

histVars == <<hists, ops, panicked, wide>>

funVars == <<fpc, fin, fout>>

monVars == <<cfg, mon, elapsed, progress>>

uiVars == <<plan, hpc, mpc, stopCalls, runErr, now, nticks, store, pub, reg, lock,
            rem, chans, spc, last, crashed, offers, pubRegs, terminal, monVars>>

acctVars == <<retCodes, whist, live, kafkaTotal, finalStats, closedClients>>

runVars == <<ropt, rpc, ci, warm, wpc, counter, calls, after, stopped, mu, stopCloses,
             apc, abortFailed, rclock, cleanEnd, acctVars>>

vars == <<histVars, funVars, uiVars, runVars>>

(***************************************************************************)
(* Bounds of the model.                                                    *)
(***************************************************************************)
MaxOps == 3

(***************************************************************************)
(* pkg/stats: bucket table.                                                *)
(***************************************************************************)
histogramBucketValues ==
    << 0, 1, 2, 3, 4, 5, 6,
       7, 8, 9, 10, 11,
       12, 14, 16, 18, 20,
       25, 30, 35, 40, 45, 50,
       60, 70, 80, 90, 100,
       120, 140, 160, 180, 200,
       250, 300, 350, 400, 450, 500,
       600, 700, 800, 900, 1000,
       2000, 3000, 4000, 5000, 7500, 10000,
       20000, 30000, 40000, 50000, 75000, 100000 >>

\* histogramBucketValues[i] with the code's 0-based index
BV(i) == histogramBucketValues[i + 1]

numValues == Len(histogramBucketValues)

numBuckets == numValues + 1

firstValue == BV(0)

lastValue == BV(numValues - 1)

maxArrayValue == 1000

\* init(): the index of maxArrayValue in the bucket list
maxArrayValueIndex == CHOOSE i \in 0 .. (numValues - 1) : BV(i) = maxArrayValue

\* init(): the value of idx after the loop iteration for i.  The loop raises idx
\* by one whenever i >= histogramBucketValues[idx]; the bucket values start at
\* 0 and grow by at least 1, so idx never lags and after iteration i it is the
\* number of bucket values <= i.
InitIdx(i) == Cardinality({k \in 0 .. (numValues - 1) : BV(k) <= i})

val2Bucket == [i \in 0 .. (maxArrayValue - 1) |-> InitIdx(i)]

\* int32 limits of a bucket cell
Max32 == 2147483647

Min32 == (-Max32) - 1

\* a + b in int32 arithmetic (two's complement wrap-around), for a, b in int32
AddInt32(a, b) ==
    IF b > 0 /\ a > Max32 - b THEN (a - Max32 - 1) + (b - Max32 - 1)
    ELSE IF b < 0 /\ a < Min32 - b THEN (a + Max32 + 1) + (b + Max32 + 1)
    ELSE a + b

\* lookUpIdx: -1 stands for the index-out-of-range panic of val2Bucket[scaledValue]
lookUpIdx(scaledValue) ==
    IF scaledValue < maxArrayValue
    THEN IF scaledValue \in DOMAIN val2Bucket THEN val2Bucket[scaledValue] ELSE -1
    ELSE LET above == {i \in maxArrayValueIndex .. (numValues - 1) : BV(i) > scaledValue}
         IN  IF above = {} THEN -1
             ELSE CHOOSE i \in above : \A j \in above : i <= j

\* 1e-12 in quanta of 1e-13
EpsFine == 10

\* A grid value as the argument of record
Val(v) == [num |-> v, den |-> 1, fine |-> 0]

(***************************************************************************)
(* Histogram.record: the bucket index for v = num/den + fine*1e-13.        *)
(* scaledVal = (v - Offset)/Divider = sn/sd + (fine/Divider)*1e-13, with   *)
(* Divider > 0.  Returns -1 when lookUpIdx panics.                         *)
(***************************************************************************)
recordIdx(Offset, Divider, v) ==
    LET sn == v.num - Offset * v.den
        sd == v.den * Divider
        svInt == sn \div sd
        frac == sn % sd
        deltaSmall == frac = 0 /\ v.fine < EpsFine * Divider
    IN  IF sn < firstValue * sd \/ (sn = firstValue * sd /\ v.fine = 0) THEN 0
        ELSE IF sn > lastValue * sd \/ (sn = lastValue * sd /\ v.fine > 0)
             THEN numBuckets - 1
        ELSE lookUpIdx(IF deltaSmall THEN svInt - 1 ELSE svInt)

\* Histogram.record on the bucket array (unchanged when the lookup panics)
record(h, v, count) ==
    LET idx == recordIdx(h.Offset, h.Divider, v)
    IN  IF idx < 0 THEN h
        ELSE [h EXCEPT !.Hdata[idx] = AddInt32(@, count)]

recordPanics(h, v) == recordIdx(h.Offset, h.Divider, v) < 0

(***************************************************************************)
(* pkg/stats: Counter (embedded in Histogram: its fields are the fields    *)
(* Count, Min, Max, Sum, sumOfSquares of the histogram record).            *)
(***************************************************************************)
CounterRecordN(c, v, n) ==
    LET isFirst == c.Count = 0
        s == v * n
        m == IF isFirst THEN [c EXCEPT !.Min = v, !.Max = v]
             ELSE IF v < c.Min THEN [c EXCEPT !.Min = v]
             ELSE IF v > c.Max THEN [c EXCEPT !.Max = v]
             ELSE c
    IN  [m EXCEPT !.Count = c.Count + n,
                  !.Sum = c.Sum + s,
                  !.sumOfSquares = c.sumOfSquares + s * s]

CounterReset(c) ==
    [c EXCEPT !.Count = 0, !.Min = 0, !.Max = 0, !.Sum = 0, !.sumOfSquares = 0]

\* *c = *src: the Counter fields of src copied into c
CounterAssign(c, src) ==
    [c EXCEPT !.Count = src.Count, !.Min = src.Min, !.Max = src.Max,
              !.Sum = src.Sum, !.sumOfSquares = src.sumOfSquares]

\* Counter.Transfer that counts the data of src twice
CounterTransferDouble(c, src) ==
    IF src.Count = 0 THEN <<c, src>>
    ELSE IF c.Count = 0 THEN <<CounterAssign(c, src), CounterReset(src)>>
    ELSE << [c EXCEPT !.Count = c.Count + 2 * src.Count,
                      !.Min = IF src.Min < c.Min THEN src.Min ELSE c.Min,
                      !.Max = IF src.Max > c.Max THEN src.Max ELSE c.Max,
                      !.Sum = c.Sum + src.Sum,
                      !.sumOfSquares = c.sumOfSquares + src.sumOfSquares],
            CounterReset(src) >>

\* Counter.Transfer that takes Min from src without comparing
CounterTransferLastMin(c, src) ==
    IF src.Count = 0 THEN <<c, src>>
    ELSE IF c.Count = 0 THEN <<CounterAssign(c, src), CounterReset(src)>>
    ELSE << [c EXCEPT !.Count = c.Count + src.Count,
                      !.Min = src.Min,
                      !.Max = IF src.Max > c.Max THEN src.Max ELSE c.Max,
                      !.Sum = c.Sum + src.Sum,
                      !.sumOfSquares = c.sumOfSquares + src.sumOfSquares],
            CounterReset(src) >>

\* Counter.Transfer: <<c after, src after>>
CounterTransfer(c, src) ==
    IF src.Count = 0 THEN <<c, src>>
    ELSE IF c.Count = 0 THEN <<CounterAssign(c, src), CounterReset(src)>>
    ELSE << [c EXCEPT !.Count = c.Count + src.Count,
                      !.Min = IF src.Min < c.Min THEN src.Min ELSE c.Min,
                      !.Max = IF src.Max > c.Max THEN src.Max ELSE c.Max,
                      !.Sum = c.Sum + src.Sum,
                      !.sumOfSquares = c.sumOfSquares + src.sumOfSquares],
            CounterReset(src) >>

(***************************************************************************)
(* pkg/stats: Histogram.                                                   *)
(***************************************************************************)
\* no histogram: the nil *Histogram
NilHistogram == [nil |-> TRUE]

\* the Histogram literal of NewHistogram: a zero Counter, the scale, and
\* make([]int32, numBuckets)
EmptyHistogram(offset, divider) ==
    [Count |-> 0, Min |-> 0, Max |-> 0, Sum |-> 0, sumOfSquares |-> 0,
     Offset |-> offset, Divider |-> divider,
     Hdata |-> [i \in 0 .. (numBuckets - 1) |-> 0]]

\* NewHistogram without the test of the divider
NewHistogramAnyDivider(offset, divider) == EmptyHistogram(offset, divider)

\* NewHistogram: nil for a zero divider
NewHistogram(offset, divider) ==
    IF divider = 0 THEN NilHistogram ELSE EmptyHistogram(offset, divider)

HistRecordN(h, v, n) == record(CounterRecordN(h, v, n), Val(v), n)

HistReset(h) ==
    [CounterReset(h) EXCEPT !.Hdata = [i \in 0 .. (numBuckets - 1) |-> 0]]

\* Export: index of the last bucket with a positive count, -1 if none
ExportLastIdx(h) ==
    LET pos == {i \in 0 .. (numBuckets - 1) : h.Hdata[i] > 0}
    IN  IF pos = {} THEN -1 ELSE CHOOSE i \in pos : \A j \in pos : j <= i

\* Export: the loop over the buckets 0 .. lastIdx
RECURSIVE ExportLoop(_, _, _, _, _, _)
ExportLoop(h, lastIdx, i, prev, total, data) ==
    IF i > lastIdx THEN data
    ELSE LET nextPrev == IF i < numValues THEN BV(i) ELSE prev
         IN  IF h.Hdata[i] = 0
             THEN ExportLoop(h, lastIdx, i + 1, nextPrev, total, data)
             ELSE LET t == total + h.Hdata[i]
                      b == [Start |-> IF Len(data) = 0 THEN h.Min
                                      ELSE h.Divider * prev + h.Offset,
                            End |-> IF i < numValues THEN h.Divider * BV(i) + h.Offset
                                    ELSE h.Max,
                            Percent |-> [n |-> 100 * t, d |-> h.Count],
                            Count |-> h.Hdata[i]]
                  IN  ExportLoop(h, lastIdx, i + 1, nextPrev, t, Append(data, b))

\* Histogram.Export (Avg and StdDev are derived from Count, Sum, sumOfSquares)
Export(h) ==
    LET lastIdx == ExportLastIdx(h)
        data == IF lastIdx = -1 THEN <<>>
                ELSE ExportLoop(h, lastIdx, 0, BV(0), 0, <<>>)
    IN  [Count |-> h.Count, Min |-> h.Min, Max |-> h.Max, Sum |-> h.Sum,
         Data |-> IF data = <<>> THEN data
                  ELSE [data EXCEPT ![Len(data)].End = h.Max]]

\* copyHDataFrom, differing scales: re-record the exported buckets at their midpoints
RECURSIVE copyExported(_, _, _)
copyExported(h, data, i) ==
    IF i > Len(data) THEN h
    ELSE copyExported(
             record(h, [num |-> data[i].Start + data[i].End, den |-> 2, fine |-> 0],
                    data[i].Count),
             data, i + 1)

copyHDataFrom(h, src) ==
    IF h.Divider = src.Divider /\ h.Offset = src.Offset
    THEN [h EXCEPT !.Hdata = [i \in 0 .. (numBuckets - 1) |->
                                 AddInt32(h.Hdata[i], src.Hdata[i])]]
    ELSE copyExported(h, Export(src).Data, 1)

CopyFrom(h, src) == copyHDataFrom(CounterAssign(h, src), src)

Clone(h) == CopyFrom(NewHistogram(h.Offset, h.Divider), h)

\* Histogram.Transfer: <<h after, src after>>
Transfer(h, src) ==
    IF src.Count = 0 THEN <<h, src>>
    ELSE IF h.Count = 0 THEN <<CopyFrom(h, src), HistReset(src)>>
    ELSE << CounterTransfer(copyHDataFrom(h, src), src)[1], HistReset(src) >>

\* Merge: <<the new histogram, h1 after, h2 after>>
Merge(h1, h2) ==
    LET divider == IF h2.Divider > h1.Divider THEN h2.Divider ELSE h1.Divider
        offset == IF h2.Offset < h1.Offset THEN h2.Offset ELSE h1.Offset
        t1 == Transfer(NewHistogram(offset, divider), h1)
        t2 == Transfer(t1[1], h2)
    IN  <<t2[1], t1[2], t2[2]>>

(***************************************************************************)
(* ui: snapshots, the subscriber registry and the publish in progress.     *)
(* One run (one runID) is modelled.  A snapshot is a LiveProgress reduced  *)
(* to Status and ElapsedSeconds; elapsed time is counted in monitor ticks. *)
(***************************************************************************)
\* the SSE observers
Clients == {1, 2, 3}

\* the observers that may go away while the run is on
Leavers == {1}

\* ticks of the monitor in the plan with a single observer
MaxTicks == 11

\* addSubscriber: make(chan *LiveProgress, 10)
BufSize == 10

\* no LiveProgress (a nil pointer, or no entry in progressStore.runs)
NoSnap == [status |-> "none", elapsed |-> 0]

Snap(st, e) == [status |-> st, elapsed |-> e]

IsTerminal(p) == p.status \in {"completed", "error"}

\* the runs explored: one slow observer over many ticks, or several observers
\* over a short run
Plans == { [clients |-> {1}, ticks |-> MaxTicks],
           [clients |-> Clients, ticks |-> 0] }

NoPlan == [clients |-> {}, ticks |-> 0]

\* sseSubscribers.clients has no entry for the runID (a nil slice)
RegAbsent == [arr |-> <<>>, len |-> 0]

\* append to a full slice: the capacity of the new backing array
GrowCap(cap) == IF cap = 0 THEN 1 ELSE 2 * cap

\* no UpdateProgress call in progress
PubOff == [phase |-> "off", who |-> "none", snap |-> NoSnap,
           shared |-> FALSE, arr |-> <<>>, len |-> 0, i |-> 0, cur |-> 0]

NoRem == [i |-> 0, j |-> 0]

ChansAtStart == [c \in Clients |-> [buf |-> <<>>, closed |-> FALSE]]

\* n: offers made, q: offers queued, full: an offer found the buffer full
NoOffer == [n |-> 0, q |-> 0, full |-> FALSE]

\* no monitor has been started
NoConfig == [impl |-> "none", ExpectedSeconds |-> 0]

\* a float64 percentage as the exact quotient num / den (den > 0)
Percent(num, den) == [num |-> num, den |-> den]

\* no LiveProgress has been published by a monitor
NoProgress == [Status |-> "none", ElapsedSeconds |-> 0, ProgressPercent |-> Percent(0, 1),
               LastError |-> ""]

(***************************************************************************)
(* periodic runner and Aborter (package periodic is not part of the        *)
(* sources: modelled from sections 3, 4.1, 4.4 and 5 of the specification) *)
(* as driven by the protocol adapter RunKafkaTest.                         *)
(***************************************************************************)
\* the worker threads
Workers == {1, 2}

\* largest exact number of calls asked for
MaxExactly == 2

\* the run is watched for this long
MaxClock == 1

\* the Abort() calls: the adapter's deferred one and two from elsewhere
\* (StopByRunID)
Aborters == {"defer", "ext1", "ext2"}

NoOptions == [Exactly |-> 0, Duration |-> 0, NumThreads |-> 0, paced |-> FALSE]

\* the options a run is asked with: Exactly (0: none), Duration (-1: until
\* aborted), paced (qps > 0)
OptionsAsked ==
    [Exactly : 0 .. MaxExactly, Duration : {-1, 1}, NumThreads : {Cardinality(Workers)},
     paced : BOOLEAN]

\* KafkaStatusOK
KafkaStatusOK == "OK"

\* the error strings Produce may return (err.Error())
ErrStrings == {"E1", "E2"}

\* the keys of a result-code map
Keys == {KafkaStatusOK} \cup ErrStrings

\* make(KafkaResultMap): a key that is absent reads as 0
NoCodes == [key \in Keys |-> 0]

\* GetLiveStatsByRunID returns nil: no handle is registered for the run
NoLive == [registered |-> FALSE, total |-> 0, success |-> 0, errors |-> 0]

\* the RunnerResults of RunKafkaTest before the run
NoTotal == [RetCodes |-> NoCodes, Count |-> 0]

\* no final snapshot has been published
NoStats == [published |-> FALSE, RequestsTotal |-> 0, RequestsSuccess |-> 0,
            RequestsError |-> 0]

(***************************************************************************)
(* Histogram operations as a state machine.                                *)
(***************************************************************************)
Slots == {"a", "b", "t"}

\* the histograms that receive values
Sources == {"a", "b"}

\* (Offset, Divider) of histogram b at start (a and t start with 0, 1)
Scales == { <<0, 1>>, <<0, 2>>, <<-99998, 1>> }

\* values recorded
Vals == {0, 1, 3}

\* repeat counts of RecordN
Reps == {0, 2}

\* 2^30
Block == 1024 * 1024 * 1024

\* repeat counts of RecordN on the wide histogram
WideReps == {1, Block}

(***************************************************************************)
(* The wide histogram only ever receives the value 0 (Offset 0, Divider    *)
(* 1): Sum, Min, Max stay 0 and only cell 0 changes.  Count is int64, kept *)
(* as CountHi * 2^30 + CountLo; the cell is int32.                         *)
(***************************************************************************)
WideEmpty == [CountHi |-> 0, CountLo |-> 0, cell |-> 0]

HistsAtStart(sb) ==
    [s \in Slots |-> IF s = "b" THEN NewHistogram(sb[1], sb[2])
                     ELSE NewHistogram(0, 1)]

Record(s, v) ==
    /\ ~panicked /\ ops < MaxOps
    /\ hists' = [hists EXCEPT ![s] = HistRecordN(@, v, 1)]
    /\ panicked' = recordPanics(hists[s], Val(v))
    /\ ops' = ops + 1
    /\ UNCHANGED <<wide, funVars, uiVars, runVars>>

RecordN(s, v, n) ==
    /\ ~panicked /\ ops < MaxOps
    /\ hists' = [hists EXCEPT ![s] = HistRecordN(@, v, n)]
    /\ panicked' = recordPanics(hists[s], Val(v))
    /\ ops' = ops + 1
    /\ UNCHANGED <<wide, funVars, uiVars, runVars>>

DoTransfer(dst, src) ==
    /\ ~panicked /\ ops < MaxOps
    /\ dst # src
    /\ LET r == Transfer(hists[dst], hists[src])
       IN  hists' = [hists EXCEPT ![dst] = r[1], ![src] = r[2]]
    /\ ops' = ops + 1
    /\ UNCHANGED <<panicked, wide, funVars, uiVars, runVars>>

\* t = Merge(a, b)
DoMerge ==
    /\ ~panicked /\ ops < MaxOps
    /\ LET r == Merge(hists["a"], hists["b"])
       IN  hists' = [hists EXCEPT !["t"] = r[1], !["a"] = r[2], !["b"] = r[3]]
    /\ ops' = ops + 1
    /\ UNCHANGED <<panicked, wide, funVars, uiVars, runVars>>

\* t = s.Clone()
DoClone(s) ==
    /\ ~panicked /\ ops < MaxOps
    /\ hists' = [hists EXCEPT !["t"] = Clone(hists[s])]
    /\ ops' = ops + 1
    /\ UNCHANGED <<panicked, wide, funVars, uiVars, runVars>>

DoReset(s) ==
    /\ ~panicked /\ ops < MaxOps
    /\ hists' = [hists EXCEPT ![s] = HistReset(@)]
    /\ ops' = ops + 1
    /\ UNCHANGED <<panicked, wide, funVars, uiVars, runVars>>

\* Counter.RecordN line c.Count += int64(n), for 0 <= n <= 2^30
WideCountAdd(w, n) ==
    LET lo == w.CountLo + n
    IN  [w EXCEPT !.CountHi = w.CountHi + (lo \div Block), !.CountLo = lo % Block]

\* h.RecordN(0, n) on the wide histogram
RecordNWide(n) ==
    /\ ~panicked /\ ops < MaxOps
    /\ wide' = [WideCountAdd(wide, n) EXCEPT !.cell = AddInt32(wide.cell, n)]
    /\ ops' = ops + 1
    /\ UNCHANGED <<hists, panicked, funVars, uiVars, runVars>>

\* src := NewHistogram(0, 1); src.RecordN(0, n); wide.Transfer(src), for n > 0:
\* Count goes up by n (copied when the wide histogram is empty, added
\* otherwise) and copyHDataFrom adds the cell of src to cell 0; two operations
TransferWide(n) ==
    /\ ~panicked /\ ops + 1 < MaxOps
    /\ wide' = [WideCountAdd(wide, n) EXCEPT !.cell = AddInt32(wide.cell, n)]
    /\ ops' = ops + 2
    /\ UNCHANGED <<hists, panicked, funVars, uiVars, runVars>>

\* src := NewHistogram(0, 1); src.RecordN(0, n); wide = Merge(wide, src), for
\* n > 0: the new histogram (0, 1) takes the Count and the cell of the wide
\* histogram with the first Transfer, and the second adds n to the Count and,
\* in copyHDataFrom, to cell 0; two operations
MergeWide(n) ==
    /\ ~panicked /\ ops + 1 < MaxOps
    /\ wide' = [WideCountAdd(wide, n) EXCEPT !.cell = AddInt32(wide.cell, n)]
    /\ ops' = ops + 2
    /\ UNCHANGED <<hists, panicked, funVars, uiVars, runVars>>

InitHist ==
    /\ \E sb \in Scales : hists = HistsAtStart(sb)
    /\ ops = 0
    /\ panicked = FALSE
    /\ wide = WideEmpty
    /\ fpc = "idle" /\ fin = <<>> /\ fout = <<>>
    /\ plan = NoPlan /\ hpc = "idle" /\ mpc = "none" /\ stopCalls = 0 /\ runErr = "none"
    /\ now = 0 /\ nticks = 0 /\ store = NoSnap /\ pub = PubOff /\ reg = RegAbsent
    /\ lock = 0 /\ rem = NoRem /\ chans = ChansAtStart /\ spc = [c \in Clients |-> "idle"]
    /\ last = [c \in Clients |-> NoSnap] /\ crashed = FALSE
    /\ offers = [c \in Clients |-> NoOffer] /\ pubRegs = {} /\ terminal = NoSnap
    /\ cfg = NoConfig /\ mon = "idle" /\ elapsed = 0 /\ progress = NoProgress
    /\ ropt = NoOptions /\ rpc = "idle" /\ ci = 0 /\ warm = 0
    /\ wpc = [k \in Workers |-> "off"] /\ counter = 0 /\ calls = [k \in Workers |-> 0]
    /\ after = [k \in Workers |-> 0] /\ stopped = FALSE /\ mu = "free" /\ stopCloses = 0
    /\ apc = [a \in Aborters |-> "idle"] /\ abortFailed = FALSE /\ rclock = 0
    /\ cleanEnd = FALSE
    /\ retCodes = [k \in Workers |-> NoCodes] /\ whist = [k \in Workers |-> 0]
    /\ live = NoLive /\ kafkaTotal = NoTotal /\ finalStats = NoStats /\ closedClients = 0

NextHist ==
    \/ \E s \in Sources, v \in Vals : Record(s, v)
    \/ \E s \in Sources, v \in Vals, n \in Reps : RecordN(s, v, n)
    \/ \E dst \in Slots, src \in Slots : DoTransfer(dst, src)
    \/ DoMerge
    \/ \E s \in Sources : DoClone(s)
    \/ \E s \in Slots : DoReset(s)
    \/ \E n \in WideReps : RecordNWide(n)
    \/ \E n \in WideReps : TransferWide(n)
    \/ \E n \in WideReps : MergeWide(n)

SpecHist == InitHist /\ [][NextHist]_vars

(***************************************************************************)
(* Histogram.record as a pure function: the input is drawn at start, the   *)
(* call records it once into a new histogram.                              *)
(***************************************************************************)
\* numerators, denominators and fine excess of the values tried
RecNums == {-1, 0, 1, 2, 11, 12, 13, 14, 999, 1000, 1001, 1999, 2000, 2001,
            100000, 100001}

RecDens == {1, 2}

RecFines == {0, 5, 10}

RecScales == { <<0, 1>>, <<0, 2>>, <<1, 1>> }

InitRecord ==
    /\ fpc = "ready"
    /\ \E n \in RecNums, d \in RecDens, f \in RecFines, sc \in RecScales :
           fin = [Offset |-> sc[1], Divider |-> sc[2],
                  v |-> [num |-> n, den |-> d, fine |-> f]]
    /\ fout = <<>>
    /\ hists = HistsAtStart(<<0, 1>>) /\ ops = 0 /\ panicked = FALSE /\ wide = WideEmpty
    /\ plan = NoPlan /\ hpc = "idle" /\ mpc = "none" /\ stopCalls = 0 /\ runErr = "none"
    /\ now = 0 /\ nticks = 0 /\ store = NoSnap /\ pub = PubOff /\ reg = RegAbsent
    /\ lock = 0 /\ rem = NoRem /\ chans = ChansAtStart /\ spc = [c \in Clients |-> "idle"]
    /\ last = [c \in Clients |-> NoSnap] /\ crashed = FALSE
    /\ offers = [c \in Clients |-> NoOffer] /\ pubRegs = {} /\ terminal = NoSnap
    /\ cfg = NoConfig /\ mon = "idle" /\ elapsed = 0 /\ progress = NoProgress
    /\ ropt = NoOptions /\ rpc = "idle" /\ ci = 0 /\ warm = 0
    /\ wpc = [k \in Workers |-> "off"] /\ counter = 0 /\ calls = [k \in Workers |-> 0]
    /\ after = [k \in Workers |-> 0] /\ stopped = FALSE /\ mu = "free" /\ stopCloses = 0
    /\ apc = [a \in Aborters |-> "idle"] /\ abortFailed = FALSE /\ rclock = 0
    /\ cleanEnd = FALSE
    /\ retCodes = [k \in Workers |-> NoCodes] /\ whist = [k \in Workers |-> 0]
    /\ live = NoLive /\ kafkaTotal = NoTotal /\ finalStats = NoStats /\ closedClients = 0

\* h := NewHistogram(Offset, Divider); h.record(v, 1)
CallRecord ==
    /\ fpc = "ready"
    /\ LET h == NewHistogram(fin.Offset, fin.Divider)
       IN  fout' = [Hdata |-> record(h, fin.v, 1).Hdata,
                    panic |-> recordPanics(h, fin.v)]
    /\ fpc' = "done"
    /\ UNCHANGED <<fin, histVars, uiVars, runVars>>

NextRecord == CallRecord

SpecRecord == InitRecord /\ [][NextRecord]_vars

(***************************************************************************)
(* ui: ParsePrometheusMetrics.  The text is a sequence of lines (what the  *)
(* bufio.Scanner yields), a line a sequence of characters.                 *)
(***************************************************************************)
\* lines of the text at most
MaxLines == 2

\* the lines a text is made of
PromLines ==
    { <<>>,
      <<" ">>,
      <<"#", " ", "m">>,
      <<" ", "#", "m", " ", "1">>,
      <<"m", " ", "1">>,
      <<"m", "{", "a", "}", " ", "1", "2">>,
      <<" ", "m", " ", " ", "2", " ">>,
      <<"m", " ", "a">>,
      <<"1">>,
      <<"m">>,
      <<"{", "a", "}", " ", "1">>,
      <<"m", " ", "1", " ", "2">>,
      <<"m", "{", "a", " ", "b", "}", " ", "1">> }

Digits == {"1", "2"}

RECURSIVE TrimLeft(_)
TrimLeft(l) == IF l # <<>> /\ Head(l) = " " THEN TrimLeft(Tail(l)) ELSE l

RECURSIVE TrimRight(_)
TrimRight(l) ==
    IF l # <<>> /\ l[Len(l)] = " " THEN TrimRight(SubSeq(l, 1, Len(l) - 1)) ELSE l

\* strings.TrimSpace
TrimSpace(l) == TrimRight(TrimLeft(l))

\* strings.HasPrefix(l, c) for a prefix of one character
HasPrefix(l, c) == l # <<>> /\ Head(l) = c

\* strings.Fields: the maximal runs of characters other than spaces; cur
\* is the run being read
RECURSIVE FieldsFrom(_, _, _)
FieldsFrom(l, cur, parts) ==
    IF l = <<>> THEN (IF cur = <<>> THEN parts ELSE Append(parts, cur))
    ELSE IF Head(l) = " "
         THEN FieldsFrom(Tail(l), <<>>, IF cur = <<>> THEN parts ELSE Append(parts, cur))
         ELSE FieldsFrom(Tail(l), Append(cur, Head(l)), parts)

Fields(l) == FieldsFrom(l, <<>>, <<>>)

\* strings.Index(l, c) for one character: 0-based, -1 when c is not in l
Index(l, c) ==
    LET at == {i \in 1 .. Len(l) : l[i] = c}
    IN  IF at = {} THEN -1 ELSE (CHOOSE i \in at : \A j \in at : i <= j) - 1

\* the number a sequence of digits stands for
RECURSIVE DigitsValue(_)
DigitsValue(tok) ==
    IF tok = <<>> THEN 0
    ELSE 10 * DigitsValue(SubSeq(tok, 1, Len(tok) - 1))
         + (IF tok[Len(tok)] = "1" THEN 1 ELSE 2)

\* strconv.ParseFloat(tok, 64) on the characters of the lines: a token of
\* digits parses, any other does not
ParseFloat(tok) ==
    IF tok # <<>> /\ \A i \in 1 .. Len(tok) : tok[i] \in Digits
    THEN [val |-> DigitsValue(tok), err |-> "nil"]
    ELSE [val |-> 0, err |-> "invalid syntax"]

\* the body of the scanner loop for one line: metrics after the line
ParseLine(text, metrics) ==
    LET line == TrimSpace(text)
        parts == Fields(line)
        idx == Index(parts[1], "{")
        name == IF idx > 0 THEN SubSeq(parts[1], 1, idx) ELSE parts[1]
        v == ParseFloat(parts[Len(parts)])
    IN  IF line = <<>> \/ HasPrefix(line, "#") THEN metrics
        ELSE IF Len(parts) >= 2 /\ v.err = "nil"
             THEN Append(metrics, [Name |-> name, Value |-> v.val])
             ELSE metrics

RECURSIVE ScanLines(_, _)
ScanLines(data, metrics) ==
    IF data = <<>> THEN metrics
    ELSE ScanLines(Tail(data), ParseLine(Head(data), metrics))

ParsePrometheusMetrics(data) == ScanLines(data, <<>>)

InitProm ==
    /\ fpc = "ready"
    /\ \E n \in 0 .. MaxLines : fin \in [1 .. n -> PromLines]
    /\ fout = <<>>
    /\ hists = HistsAtStart(<<0, 1>>) /\ ops = 0 /\ panicked = FALSE /\ wide = WideEmpty
    /\ plan = NoPlan /\ hpc = "idle" /\ mpc = "none" /\ stopCalls = 0 /\ runErr = "none"
    /\ now = 0 /\ nticks = 0 /\ store = NoSnap /\ pub = PubOff /\ reg = RegAbsent
    /\ lock = 0 /\ rem = NoRem /\ chans = ChansAtStart /\ spc = [c \in Clients |-> "idle"]
    /\ last = [c \in Clients |-> NoSnap] /\ crashed = FALSE
    /\ offers = [c \in Clients |-> NoOffer] /\ pubRegs = {} /\ terminal = NoSnap
    /\ cfg = NoConfig /\ mon = "idle" /\ elapsed = 0 /\ progress = NoProgress
    /\ ropt = NoOptions /\ rpc = "idle" /\ ci = 0 /\ warm = 0
    /\ wpc = [k \in Workers |-> "off"] /\ counter = 0 /\ calls = [k \in Workers |-> 0]
    /\ after = [k \in Workers |-> 0] /\ stopped = FALSE /\ mu = "free" /\ stopCloses = 0
    /\ apc = [a \in Aborters |-> "idle"] /\ abortFailed = FALSE /\ rclock = 0
    /\ cleanEnd = FALSE
    /\ retCodes = [k \in Workers |-> NoCodes] /\ whist = [k \in Workers |-> 0]
    /\ live = NoLive /\ kafkaTotal = NoTotal /\ finalStats = NoStats /\ closedClients = 0

\* metrics := ParsePrometheusMetrics(data)
CallParse ==
    /\ fpc = "ready"
    /\ fout' = ParsePrometheusMetrics(fin)
    /\ fpc' = "parsed"
    /\ UNCHANGED <<fin, histVars, uiVars, runVars>>

NextProm == CallParse

SpecProm == InitProm /\ [][NextProm]_vars

(***************************************************************************)
(* PeriodicRunner: the pacing of one worker.  Time is counted in quarters  *)
(* of the inter-call interval dt of a thread, from t0 = 0.                 *)
(***************************************************************************)
\* numThreads
PaceThreads == 2

\* dt, the inter-call interval of one thread
PaceDt == 4

\* calls of the worker at most
MaxPaceCalls == 3

\* the worker is watched until this time
MaxPaceNow == 13

\* how long a call takes
CallTimes == {0, 1, 5, 9}

\* how long after its target a sleep may end
Oversleep == {0, 1}

\* the jitter drawn for one target, within +-dt/2
Jitters == {-1, 0, 1}

\* target(k, i) without jitter
Target(k, i) == k * (PaceDt \div PaceThreads) + i * PaceDt

\* a skip that only moves to the next slot
NextSlotPlusOne(k, i, t) == i + 1

\* the smallest slot from i on with target(k, slot) > t
NextSlot(k, i, t) ==
    CHOOSE j \in i .. (i + t + 1) :
        /\ Target(k, j) > t
        /\ \A j2 \in i .. (j - 1) : Target(k, j2) <= t

\* the worker before its first iteration
WorkerAtStart ==
    [i |-> 0, now |-> 0, target |-> 0, calls |-> <<>>, skipped |-> {}]

InitPace ==
    /\ fpc = "compute"
    /\ fin \in [k : 0 .. (PaceThreads - 1), noCatchUp : BOOLEAN, jitter : BOOLEAN]
    /\ fout = WorkerAtStart
    /\ hists = HistsAtStart(<<0, 1>>) /\ ops = 0 /\ panicked = FALSE /\ wide = WideEmpty
    /\ plan = NoPlan /\ hpc = "idle" /\ mpc = "none" /\ stopCalls = 0 /\ runErr = "none"
    /\ now = 0 /\ nticks = 0 /\ store = NoSnap /\ pub = PubOff /\ reg = RegAbsent
    /\ lock = 0 /\ rem = NoRem /\ chans = ChansAtStart /\ spc = [c \in Clients |-> "idle"]
    /\ last = [c \in Clients |-> NoSnap] /\ crashed = FALSE
    /\ offers = [c \in Clients |-> NoOffer] /\ pubRegs = {} /\ terminal = NoSnap
    /\ cfg = NoConfig /\ mon = "idle" /\ elapsed = 0 /\ progress = NoProgress
    /\ ropt = NoOptions /\ rpc = "idle" /\ ci = 0 /\ warm = 0
    /\ wpc = [k \in Workers |-> "off"] /\ counter = 0 /\ calls = [k \in Workers |-> 0]
    /\ after = [k \in Workers |-> 0] /\ stopped = FALSE /\ mu = "free" /\ stopCloses = 0
    /\ apc = [a \in Aborters |-> "idle"] /\ abortFailed = FALSE /\ rclock = 0
    /\ cleanEnd = FALSE
    /\ retCodes = [k \in Workers |-> NoCodes] /\ whist = [k \in Workers |-> 0]
    /\ live = NoLive /\ kafkaTotal = NoTotal /\ finalStats = NoStats /\ closedClients = 0

\* step 1: the worker computes its next target (with the jitter j when asked)
PaceTarget(j) ==
    /\ fpc = "compute"
    /\ Len(fout.calls) < MaxPaceCalls /\ fout.now <= MaxPaceNow
    /\ fin.jitter \/ j = 0
    /\ fout' = [fout EXCEPT !.target = Target(fin.k, fout.i) + j]
    /\ fpc' = "compare"
    /\ UNCHANGED <<fin, histVars, uiVars, runVars>>

\* step 2: now < target, the worker sleeps until target (and wakes late
\* time units after it)
PaceSleep(late) ==
    /\ fpc = "compare"
    /\ fout.now < fout.target
    /\ fout' = [fout EXCEPT !.now = fout.target + late]
    /\ fpc' = "invoke"
    /\ UNCHANGED <<fin, histVars, uiVars, runVars>>

\* step 3: now >= target + dt and noCatchUp: the slots up to now are skipped
PaceSkip ==
    /\ fpc = "compare"
    /\ fout.now >= fout.target + PaceDt /\ fin.noCatchUp
    /\ LET next == NextSlot(fin.k, fout.i, fout.now)
       IN  fout' = [fout EXCEPT !.i = next,
                                !.skipped = @ \cup (fout.i .. (next - 1))]
    /\ fpc' = "compute"
    /\ UNCHANGED <<fin, histVars, uiVars, runVars>>

\* step 4: otherwise Run is invoked, and returns d time units later
PaceCall(d) ==
    /\ \/ fpc = "invoke"
       \/ /\ fpc = "compare"
          /\ fout.now >= fout.target
          /\ ~(fout.now >= fout.target + PaceDt /\ fin.noCatchUp)
    /\ fout' = [fout EXCEPT
                   !.calls = Append(@, [slot |-> fout.i, start |-> fout.now,
                                        target |-> fout.target]),
                   !.now = fout.now + d,
                   !.i = fout.i + 1]
    /\ fpc' = "compute"
    /\ UNCHANGED <<fin, histVars, uiVars, runVars>>

NextPace ==
    \/ \E j \in Jitters : PaceTarget(j)
    \/ \E late \in Oversleep : PaceSleep(late)
    \/ PaceSkip
    \/ \E d \in CallTimes : PaceCall(d)

SpecPace == InitPace /\ [][NextPace]_vars

(***************************************************************************)
(* kafkarunner: the metrics of the per-thread clients (KafkaMetrics) and   *)
(* their aggregation at the end of RunKafkaTest.                           *)
(***************************************************************************)
\* Produce calls of all the clients at most
MaxProduce == 4

\* the per-thread clients
KafkaClients == {1, 2}

\* c.metrics = nil, total.KafkaMetrics = nil
NoMetrics == [nil |-> TRUE]

\* &KafkaMetrics{}
ZeroMetrics ==
    [ProduceRequestsTotal |-> 0, ProduceRequestsSuccess |-> 0, ProduceRequestsError |-> 0]

\* NewKafkaClient: the metrics of a new client
NewClientMetrics(o) == IF o.CollectMetrics THEN ZeroMetrics ELSE NoMetrics

\* KafkaClient.Produce on the metrics of the client: ok is FALSE when
\* ProduceSync reports an error
ProduceMetrics(m, ok) ==
    IF m = NoMetrics THEN m
    ELSE IF ~ok
         THEN [m EXCEPT !.ProduceRequestsError = @ + 1]
         ELSE [m EXCEPT !.ProduceRequestsTotal = @ + 1,
                        !.ProduceRequestsSuccess = @ + 1]

\* RunKafkaTest: the aggregation of the metrics of the clients 1 .. n
RECURSIVE AggregateMetrics(_, _, _)
AggregateMetrics(o, ms, n) ==
    IF n = 0 THEN NoMetrics
    ELSE LET sofar == AggregateMetrics(o, ms, n - 1)
             t == IF sofar = NoMetrics THEN ZeroMetrics ELSE sofar
         IN  IF o.CollectMetrics /\ ms[n] # NoMetrics
             THEN [ProduceRequestsTotal |->
                       t.ProduceRequestsTotal + ms[n].ProduceRequestsTotal,
                   ProduceRequestsSuccess |->
                       t.ProduceRequestsSuccess + ms[n].ProduceRequestsSuccess,
                   ProduceRequestsError |->
                       t.ProduceRequestsError + ms[n].ProduceRequestsError]
             ELSE sofar

InitKm ==
    /\ fpc = "run"
    /\ fin \in [CollectMetrics : BOOLEAN]
    /\ fout = [metrics |-> [c \in KafkaClients |-> NewClientMetrics(fin)],
               total |-> NoMetrics, produced |-> 0]
    /\ hists = HistsAtStart(<<0, 1>>) /\ ops = 0 /\ panicked = FALSE /\ wide = WideEmpty
    /\ plan = NoPlan /\ hpc = "idle" /\ mpc = "none" /\ stopCalls = 0 /\ runErr = "none"
    /\ now = 0 /\ nticks = 0 /\ store = NoSnap /\ pub = PubOff /\ reg = RegAbsent
    /\ lock = 0 /\ rem = NoRem /\ chans = ChansAtStart /\ spc = [c \in Clients |-> "idle"]
    /\ last = [c \in Clients |-> NoSnap] /\ crashed = FALSE
    /\ offers = [c \in Clients |-> NoOffer] /\ pubRegs = {} /\ terminal = NoSnap
    /\ cfg = NoConfig /\ mon = "idle" /\ elapsed = 0 /\ progress = NoProgress
    /\ ropt = NoOptions /\ rpc = "idle" /\ ci = 0 /\ warm = 0
    /\ wpc = [k \in Workers |-> "off"] /\ counter = 0 /\ calls = [k \in Workers |-> 0]
    /\ after = [k \in Workers |-> 0] /\ stopped = FALSE /\ mu = "free" /\ stopCloses = 0
    /\ apc = [a \in Aborters |-> "idle"] /\ abortFailed = FALSE /\ rclock = 0
    /\ cleanEnd = FALSE
    /\ retCodes = [k \in Workers |-> NoCodes] /\ whist = [k \in Workers |-> 0]
    /\ live = NoLive /\ kafkaTotal = NoTotal /\ finalStats = NoStats /\ closedClients = 0

\* one Produce of the client c
ClientProduce(c, ok) ==
    /\ fpc = "run" /\ fout.produced < MaxProduce
    /\ fout' = [fout EXCEPT !.metrics[c] = ProduceMetrics(@, ok),
                            !.produced = @ + 1]
    /\ UNCHANGED <<fpc, fin, histVars, uiVars, runVars>>

\* the run is over: RunKafkaTest aggregates the results
KafkaAggregate ==
    /\ fpc = "run"
    /\ fout' = [fout EXCEPT !.total =
                   AggregateMetrics(fin, fout.metrics, Cardinality(KafkaClients))]
    /\ fpc' = "aggregated"
    /\ UNCHANGED <<fin, histVars, uiVars, runVars>>

NextKm ==
    \/ \E c \in KafkaClients, ok \in BOOLEAN : ClientProduce(c, ok)
    \/ KafkaAggregate

SpecKm == InitKm /\ [][NextKm]_vars

(***************************************************************************)
(* ui: one time series of the run monitor.  A point is its Time (elapsed,  *)
(* in ticks of the monitor) and its Value (here the number of the point).  *)
(***************************************************************************)
\* const maxPoints
maxPoints == 200

\* ticks of the monitor at most
MaxTsTicks == 203

\* points one tick adds to the series (a consumer service may report a metric
\* name more than once)
PerTick == {1, 2}

\* appendPoint that drops the new point when the series is full
appendPointKeepsOld(series, point, maxSize) ==
    LET appended == Append(series, point)
    IN  IF Len(appended) > maxSize THEN SubSeq(appended, 1, maxSize) ELSE appended

\* appendPoint
appendPoint(series, point, maxSize) ==
    LET appended == Append(series, point)
    IN  IF Len(appended) > maxSize THEN Tail(appended) ELSE appended

\* the points of one tick appended one after the other
RECURSIVE AppendPoints(_, _, _, _)
AppendPoints(series, t, first, n) ==
    IF n = 0 THEN series
    ELSE AppendPoints(appendPoint(series, [Time |-> t, Value |-> first], maxPoints),
                      t, first + 1, n - 1)

InitTs ==
    /\ fpc = "monitor"
    /\ fin \in [per : PerTick]
    /\ fout = [Points |-> <<>>, ticks |-> 0, made |-> 0]
    /\ hists = HistsAtStart(<<0, 1>>) /\ ops = 0 /\ panicked = FALSE /\ wide = WideEmpty
    /\ plan = NoPlan /\ hpc = "idle" /\ mpc = "none" /\ stopCalls = 0 /\ runErr = "none"
    /\ now = 0 /\ nticks = 0 /\ store = NoSnap /\ pub = PubOff /\ reg = RegAbsent
    /\ lock = 0 /\ rem = NoRem /\ chans = ChansAtStart /\ spc = [c \in Clients |-> "idle"]
    /\ last = [c \in Clients |-> NoSnap] /\ crashed = FALSE
    /\ offers = [c \in Clients |-> NoOffer] /\ pubRegs = {} /\ terminal = NoSnap
    /\ cfg = NoConfig /\ mon = "idle" /\ elapsed = 0 /\ progress = NoProgress
    /\ ropt = NoOptions /\ rpc = "idle" /\ ci = 0 /\ warm = 0
    /\ wpc = [k \in Workers |-> "off"] /\ counter = 0 /\ calls = [k \in Workers |-> 0]
    /\ after = [k \in Workers |-> 0] /\ stopped = FALSE /\ mu = "free" /\ stopCloses = 0
    /\ apc = [a \in Aborters |-> "idle"] /\ abortFailed = FALSE /\ rclock = 0
    /\ cleanEnd = FALSE
    /\ retCodes = [k \in Workers |-> NoCodes] /\ whist = [k \in Workers |-> 0]
    /\ live = NoLive /\ kafkaTotal = NoTotal /\ finalStats = NoStats /\ closedClients = 0

\* a tick of the monitor: elapsed is read and the points are appended
TsTick ==
    /\ fpc = "monitor" /\ fout.ticks < MaxTsTicks
    /\ fout' = [Points |-> AppendPoints(fout.Points, fout.ticks + 1, fout.made + 1, fin.per),
                ticks |-> fout.ticks + 1,
                made |-> fout.made + fin.per]
    /\ UNCHANGED <<fpc, fin, histVars, uiVars, runVars>>

NextTs == TsTick

SpecTs == InitTs /\ [][NextTs]_vars

(***************************************************************************)
(* NewHistogram on every scale asked for, zero and negative dividers       *)
(* included.                                                               *)
(***************************************************************************)
NewOffsets == -2 .. 2

NewDividers == -5 .. 5

InitNew ==
    /\ fpc = "ready"
    /\ \E o \in NewOffsets, d \in NewDividers : fin = [Offset |-> o, Divider |-> d]
    /\ fout = <<>>
    /\ hists = HistsAtStart(<<0, 1>>) /\ ops = 0 /\ panicked = FALSE /\ wide = WideEmpty
    /\ plan = NoPlan /\ hpc = "idle" /\ mpc = "none" /\ stopCalls = 0 /\ runErr = "none"
    /\ now = 0 /\ nticks = 0 /\ store = NoSnap /\ pub = PubOff /\ reg = RegAbsent
    /\ lock = 0 /\ rem = NoRem /\ chans = ChansAtStart /\ spc = [c \in Clients |-> "idle"]
    /\ last = [c \in Clients |-> NoSnap] /\ crashed = FALSE
    /\ offers = [c \in Clients |-> NoOffer] /\ pubRegs = {} /\ terminal = NoSnap
    /\ cfg = NoConfig /\ mon = "idle" /\ elapsed = 0 /\ progress = NoProgress
    /\ ropt = NoOptions /\ rpc = "idle" /\ ci = 0 /\ warm = 0
    /\ wpc = [k \in Workers |-> "off"] /\ counter = 0 /\ calls = [k \in Workers |-> 0]
    /\ after = [k \in Workers |-> 0] /\ stopped = FALSE /\ mu = "free" /\ stopCloses = 0
    /\ apc = [a \in Aborters |-> "idle"] /\ abortFailed = FALSE /\ rclock = 0
    /\ cleanEnd = FALSE
    /\ retCodes = [k \in Workers |-> NoCodes] /\ whist = [k \in Workers |-> 0]
    /\ live = NoLive /\ kafkaTotal = NoTotal /\ finalStats = NoStats /\ closedClients = 0

\* h := NewHistogram(Offset, Divider)
CallNew ==
    /\ fpc = "ready"
    /\ fout' = NewHistogram(fin.Offset, fin.Divider)
    /\ fpc' = "made"
    /\ UNCHANGED <<fin, histVars, uiVars, runVars>>

NextNew == CallNew

SpecNew == InitNew /\ [][NextNew]_vars

(***************************************************************************)
(* HistogramData.CalcPercentile.  A histogram over values g + fine*1e-13   *)
(* (g on the grid) is kept as its grid histogram h, which holds the grid   *)
(* parts of Min and Max, with the excess of Min and of Max beside it.  A   *)
(* computed float is (num + fine*1e-13)/den with den > 0; the excess is    *)
(* far below every difference of two grid parts, so floats compare by      *)
(* their grid parts first.  Sum and sumOfSquares carry the grid parts only *)
(* (CalcPercentile does not read them).                                    *)
(***************************************************************************)
\* values recorded before the export
MaxPctRecs == 3

PctGrid == {0, 1, 2, 5}

PctFines == {0, 5}

PctScales == { <<0, 1>>, <<0, 2>> }

\* the percentiles asked for
Pcts == {0, 20, 30, 40, 50, 60, 70, 90, 100, 110}

Num(g, f) == [num |-> g, fine |-> f, den |-> 1, div0 |-> FALSE]

\* x <= y
NumLeq(x, y) ==
    \/ x.num * y.den < y.num * x.den
    \/ x.num * y.den = y.num * x.den /\ x.fine * y.den <= y.fine * x.den

\* v < w for v = g + f*1e-13, w = g2 + f2*1e-13
FineLess(g, f, g2, f2) == g < g2 \/ (g = g2 /\ f < f2)

NoFineHist == [h |-> NewHistogram(0, 1), minFine |-> 0, maxFine |-> 0]

\* Histogram.Record(g + f*1e-13)
RecordFine(st, g, f) ==
    LET isFirst == st.h.Count = 0
    IN  [h |-> record(CounterRecordN(st.h, g, 1), [num |-> g, den |-> 1, fine |-> f], 1),
         minFine |-> IF isFirst \/ FineLess(g, f, st.h.Min, st.minFine)
                     THEN f ELSE st.minFine,
         maxFine |-> IF isFirst \/ FineLess(st.h.Max, st.maxFine, g, f)
                     THEN f ELSE st.maxFine]

\* Histogram.Export of such a histogram: Min is the Start of the first bucket
\* and Max the End of the last one
ExportFine(st) ==
    LET e == Export(st.h)
        n == Len(e.Data)
    IN  [Count |-> e.Count,
         Min |-> Num(e.Min, st.minFine),
         Max |-> Num(e.Max, st.maxFine),
         Data |-> [i \in 1 .. n |->
                      [Start |-> Num(e.Data[i].Start, IF i = 1 THEN st.minFine ELSE 0),
                       End |-> Num(e.Data[i].End, IF i = n THEN st.maxFine ELSE 0),
                       Percent |-> e.Data[i].Percent,
                       Count |-> e.Data[i].Count]]]

\* cur.Start + (percentile-pp)/(cur.Percent-pp)*(cur.End-cur.Start), with
\* (percentile-pp)/(cur.Percent-pp) = fn/fd; a zero divisor is flagged
Interpolate(start, end, fn, fd) ==
    IF fd = 0 THEN [start EXCEPT !.div0 = TRUE]
    ELSE [num |-> start.num * fd + fn * (end.num - start.num),
          fine |-> start.fine * fd + fn * (end.fine - start.fine),
          den |-> fd, div0 |-> FALSE]

\* CalcPercentile: the loop over e.Data; pp = ppn / e.Count
RECURSIVE CalcLoop(_, _, _, _)
CalcLoop(e, percentile, i, ppn) ==
    IF i > Len(e.Data) THEN e.Max
    ELSE LET cur == e.Data[i]
         IN  IF percentile * e.Count <= cur.Percent.n
             THEN Interpolate(cur.Start, cur.End,
                              percentile * e.Count - ppn, cur.Percent.n - ppn)
             ELSE CalcLoop(e, percentile, i + 1, cur.Percent.n)

CalcPercentile(e, percentile) ==
    IF Len(e.Data) = 0 THEN Num(0, 0)
    ELSE IF percentile >= 100 THEN e.Max
    ELSE IF percentile * e.Count <= 100 THEN e.Min
    ELSE CalcLoop(e, percentile, 1, 100)

InitPct ==
    /\ fpc = "ready"
    /\ \E sc \in PctScales :
           fin = [NoFineHist EXCEPT !.h = NewHistogram(sc[1], sc[2])]
    /\ fout = <<>>
    /\ hists = HistsAtStart(<<0, 1>>) /\ ops = 0 /\ panicked = FALSE /\ wide = WideEmpty
    /\ plan = NoPlan /\ hpc = "idle" /\ mpc = "none" /\ stopCalls = 0 /\ runErr = "none"
    /\ now = 0 /\ nticks = 0 /\ store = NoSnap /\ pub = PubOff /\ reg = RegAbsent
    /\ lock = 0 /\ rem = NoRem /\ chans = ChansAtStart /\ spc = [c \in Clients |-> "idle"]
    /\ last = [c \in Clients |-> NoSnap] /\ crashed = FALSE
    /\ offers = [c \in Clients |-> NoOffer] /\ pubRegs = {} /\ terminal = NoSnap
    /\ cfg = NoConfig /\ mon = "idle" /\ elapsed = 0 /\ progress = NoProgress
    /\ ropt = NoOptions /\ rpc = "idle" /\ ci = 0 /\ warm = 0
    /\ wpc = [k \in Workers |-> "off"] /\ counter = 0 /\ calls = [k \in Workers |-> 0]
    /\ after = [k \in Workers |-> 0] /\ stopped = FALSE /\ mu = "free" /\ stopCloses = 0
    /\ apc = [a \in Aborters |-> "idle"] /\ abortFailed = FALSE /\ rclock = 0
    /\ cleanEnd = FALSE
    /\ retCodes = [k \in Workers |-> NoCodes] /\ whist = [k \in Workers |-> 0]
    /\ live = NoLive /\ kafkaTotal = NoTotal /\ finalStats = NoStats /\ closedClients = 0

\* h.Record(g + f*1e-13); an index out of range ends the process
PctRecord(g, f) ==
    /\ fpc = "ready" /\ fin.h.Count < MaxPctRecs
    /\ fin' = RecordFine(fin, g, f)
    /\ fpc' = IF recordPanics(fin.h, [num |-> g, den |-> 1, fine |-> f])
              THEN "panicked" ELSE "ready"
    /\ UNCHANGED <<fout, histVars, uiVars, runVars>>

\* e := h.Export(); e.CalcPercentile(p) for every p asked for
PctCalc ==
    /\ fpc = "ready"
    /\ fout' = [p \in Pcts |-> CalcPercentile(ExportFine(fin), p)]
    /\ fpc' = "done"
    /\ UNCHANGED <<fin, histVars, uiVars, runVars>>

NextPct ==
    \/ \E g \in PctGrid, f \in PctFines : PctRecord(g, f)
    \/ PctCalc

SpecPct == InitPct /\ [][NextPct]_vars

(***************************************************************************)
(* Merge and Transfer of three histograms of equal scale, with the float64 *)
(* rounding of Sum.  A recorded value is g + lo*2^-53 with either lo = 0   *)
(* or g = 0 (both are float64 values).  A histogram is kept as its grid    *)
(* histogram h, whose Sum is the grid part of the sum, with sumLo, the     *)
(* part of Sum in units of 2^-53, beside it: Sum = h.Sum + sumLo*2^-53.    *)
(* A float64 in [2^k, 2^(k+1)) is a multiple of 2^(k-52), so the result of *)
(* an addition is rounded to that multiple, ties to the even mantissa.     *)
(* The only value with grid part 0 is 2^-53, so the grid parts of Min and  *)
(* Max tell the values apart; sumOfSquares carries the grid parts only.    *)
(***************************************************************************)
\* values recorded before the merges
MaxMrgRecs == 4

\* the values recorded, as <<g, lo>>: 1, 3 and 2^-53
MrgVals == { <<1, 0>>, <<3, 0>>, <<0, 1>> }

MrgScales == { <<-1, 1>>, <<0, 1>> }

MrgNames == {"A", "B", "C"}

\* the orders in which three workers can be merged
MrgOrders == { <<"A", "B", "C">>, <<"A", "C", "B">>, <<"B", "A", "C">>,
               <<"B", "C", "A">>, <<"C", "A", "B">>, <<"C", "B", "A">> }

\* the spacing of the float64 values at g >= 0, in units of 2^-53 (below 1 every
\* small multiple of 2^-53 is a float64)
RECURSIVE UlpUnits(_)
UlpUnits(g) == IF g < 1 THEN 1 ELSE 2 * UlpUnits(g \div 2)

\* lo >= 0 rounded to the nearest multiple of u, ties to the even multiple
RoundEven(lo, u) ==
    LET q == lo \div u
        r == lo % u
    IN  IF 2 * r < u THEN q * u
        ELSE IF 2 * r > u THEN (q + 1) * u
        ELSE IF q % 2 = 0 THEN q * u ELSE (q + 1) * u

NewHistogramF(offset, divider) == [h |-> NewHistogram(offset, divider), sumLo |-> 0]

\* Histogram.Record(g + lo*2^-53)
RecordF(x, g, lo) ==
    LET h2 == record(CounterRecordN(x.h, g, 1),
                     [num |-> g, den |-> 1, fine |-> IF lo > 0 THEN 1 ELSE 0], 1)
    IN  [h |-> h2, sumLo |-> RoundEven(x.sumLo + lo, UlpUnits(h2.Sum))]

\* Histogram.Transfer with c.Sum += src.Sum in float64: <<x after, src after>>
TransferF(x, src) ==
    LET t == Transfer(x.h, src.h)
    IN  << [h |-> t[1],
            sumLo |-> IF src.h.Count = 0 THEN x.sumLo
                      ELSE IF x.h.Count = 0 THEN src.sumLo
                      ELSE RoundEven(x.sumLo + src.sumLo, UlpUnits(t[1].Sum))],
           [h |-> t[2], sumLo |-> IF src.h.Count = 0 THEN src.sumLo ELSE 0] >>

\* Merge(h1, h2): the new histogram
MergeF(x1, x2) ==
    LET divider == IF x2.h.Divider > x1.h.Divider THEN x2.h.Divider ELSE x1.h.Divider
        offset == IF x2.h.Offset < x1.h.Offset THEN x2.h.Offset ELSE x1.h.Offset
        t1 == TransferF(NewHistogramF(offset, divider), x1)
    IN  TransferF(t1[1], x2)[1]

\* total.Transfer(w) for the workers w in the order given: <<total, the workers after>>
RECURSIVE TransferAll(_, _, _, _)
TransferAll(total, ws, order, i) ==
    IF i > Len(order) THEN <<total, ws>>
    ELSE LET t == TransferF(total, ws[order[i]])
         IN  TransferAll(t[1], [ws EXCEPT ![order[i]] = t[2]], order, i + 1)

\* c.Sum += src.Sum was exact when x and y were added
ExactAdd(x, y) ==
    (x.h.Count # 0 /\ y.h.Count # 0)
        => (x.sumLo + y.sumLo) % UlpUnits(x.h.Sum + y.h.Sum) = 0

InitMrg ==
    /\ fpc = "ready"
    /\ \E sc \in MrgScales : fin = [n \in MrgNames |-> NewHistogramF(sc[1], sc[2])]
    /\ fout = <<>>
    /\ hists = HistsAtStart(<<0, 1>>) /\ ops = 0 /\ panicked = FALSE /\ wide = WideEmpty
    /\ plan = NoPlan /\ hpc = "idle" /\ mpc = "none" /\ stopCalls = 0 /\ runErr = "none"
    /\ now = 0 /\ nticks = 0 /\ store = NoSnap /\ pub = PubOff /\ reg = RegAbsent
    /\ lock = 0 /\ rem = NoRem /\ chans = ChansAtStart /\ spc = [c \in Clients |-> "idle"]
    /\ last = [c \in Clients |-> NoSnap] /\ crashed = FALSE
    /\ offers = [c \in Clients |-> NoOffer] /\ pubRegs = {} /\ terminal = NoSnap
    /\ cfg = NoConfig /\ mon = "idle" /\ elapsed = 0 /\ progress = NoProgress
    /\ ropt = NoOptions /\ rpc = "idle" /\ ci = 0 /\ warm = 0
    /\ wpc = [k \in Workers |-> "off"] /\ counter = 0 /\ calls = [k \in Workers |-> 0]
    /\ after = [k \in Workers |-> 0] /\ stopped = FALSE /\ mu = "free" /\ stopCloses = 0
    /\ apc = [a \in Aborters |-> "idle"] /\ abortFailed = FALSE /\ rclock = 0
    /\ cleanEnd = FALSE
    /\ retCodes = [k \in Workers |-> NoCodes] /\ whist = [k \in Workers |-> 0]
    /\ live = NoLive /\ kafkaTotal = NoTotal /\ finalStats = NoStats /\ closedClients = 0

\* the Count of the three histograms together
MrgRecs == fin["A"].h.Count + fin["B"].h.Count + fin["C"].h.Count

\* fin[n].Record(g + lo*2^-53); an index out of range ends the process
MrgRecord(n, g, lo) ==
    /\ fpc = "ready" /\ MrgRecs < MaxMrgRecs
    /\ fin' = [fin EXCEPT ![n] = RecordF(@, g, lo)]
    /\ fpc' = IF recordPanics(fin[n].h, [num |-> g, den |-> 1,
                                         fine |-> IF lo > 0 THEN 1 ELSE 0])
              THEN "panicked" ELSE "ready"
    /\ UNCHANGED <<fout, histVars, uiVars, runVars>>

\* Merge(Merge(A, B), C) and Merge(A, Merge(B, C)) on copies of A, B and C; and
\* the transfer of copies of A, B and C into a new total, in every order
MrgCalc ==
    /\ fpc = "ready"
    /\ fout' = [left |-> MergeF(MergeF(fin["A"], fin["B"]), fin["C"]),
                right |-> MergeF(fin["A"], MergeF(fin["B"], fin["C"])),
                totals |-> [o \in MrgOrders |->
                               TransferAll(NewHistogramF(fin["A"].h.Offset,
                                                         fin["A"].h.Divider),
                                           fin, o, 1)[1]]]
    /\ fpc' = "done"
    /\ UNCHANGED <<fin, histVars, uiVars, runVars>>

NextMrg ==
    \/ \E n \in MrgNames, v \in MrgVals : MrgRecord(n, v[1], v[2])
    \/ MrgCalc

SpecMrg == InitMrg /\ [][NextMrg]_vars

(***************************************************************************)
(* Counter with its float64 arithmetic.  A value is g + lo*2^-53 with g a  *)
(* small integer and lo a small multiple of the float64 spacing at g.  A   *)
(* Counter is kept as its grid Counter c (Count, and the grid parts of     *)
(* Min, Max, Sum and sumOfSquares) with the parts in units of 2^-53 of     *)
(* Min, Max, Sum and sumOfSquares beside it.  Every product and sum is     *)
(* rounded to the float64 spacing at its grid part; terms of order 2^-106  *)
(* only decide which way a tie goes.                                       *)
(***************************************************************************)
\* Counter operations made
MaxCtrOps == 3

CtrNames == {"c", "src"}

\* the values recorded, as <<g, lo>>: 1, 1 + 3*2^-52 and 3
CtrVals == { <<1, 0>>, <<1, 6>>, <<3, 0>> }

\* repeat counts of RecordN
CtrReps == {0, 2}

\* lo plus a positive excess far below one unit, rounded to the nearest
\* multiple of u: a tie goes up when there is an excess
RoundAbove(lo, u, excess) ==
    IF excess /\ 2 * (lo % u) = u THEN ((lo \div u) + 1) * u ELSE RoundEven(lo, u)

\* lo / c rounded to the nearest multiple of u, ties to the even multiple
RoundQuotient(lo, c, u) ==
    LET q == lo \div (c * u)
        r == lo % (c * u)
    IN  IF 2 * r < c * u THEN q * u
        ELSE IF 2 * r > c * u THEN (q + 1) * u
        ELSE IF q % 2 = 0 THEN q * u ELSE (q + 1) * u

\* var empty Counter
EmptyCounterF ==
    [c |-> [Count |-> 0, Min |-> 0, Max |-> 0, Sum |-> 0, sumOfSquares |-> 0],
     minLo |-> 0, maxLo |-> 0, sumLo |-> 0, sqLo |-> 0]

\* Counter.RecordN(g + lo*2^-53, n)
RecordNC(x, g, lo, n) ==
    LET isFirst == x.c.Count = 0
        c2 == CounterRecordN(x.c, g, n)
        below == FineLess(g, lo, x.c.Min, x.minLo)
        above == FineLess(x.c.Max, x.maxLo, g, lo)
        \* s := v * float64(n)
        sLo == RoundEven(lo * n, UlpUnits(g * n))
        \* s * s
        ssLo == RoundAbove(2 * g * n * sLo, UlpUnits((g * n) * (g * n)), sLo # 0)
    IN  [c |-> c2,
         minLo |-> IF isFirst \/ below THEN lo ELSE x.minLo,
         maxLo |-> IF isFirst \/ (~below /\ above) THEN lo ELSE x.maxLo,
         sumLo |-> RoundEven(x.sumLo + sLo, UlpUnits(c2.Sum)),
         sqLo |-> RoundEven(x.sqLo + ssLo, UlpUnits(c2.sumOfSquares))]

\* Counter.Transfer: <<x after, src after>>
TransferC(x, src) ==
    LET t == CounterTransfer(x.c, src.c)
    IN  IF src.c.Count = 0 THEN <<x, src>>
        ELSE IF x.c.Count = 0 THEN <<src, EmptyCounterF>>
        ELSE << [c |-> t[1],
                 minLo |-> IF FineLess(src.c.Min, src.minLo, x.c.Min, x.minLo)
                           THEN src.minLo ELSE x.minLo,
                 maxLo |-> IF FineLess(x.c.Max, x.maxLo, src.c.Max, src.maxLo)
                           THEN src.maxLo ELSE x.maxLo,
                 sumLo |-> RoundEven(x.sumLo + src.sumLo, UlpUnits(t[1].Sum)),
                 sqLo |-> RoundEven(x.sqLo + src.sqLo, UlpUnits(t[1].sumOfSquares))],
                EmptyCounterF >>

\* Counter.Avg: 0 without data, else Sum / Count, kept as the fraction
Avg(x) ==
    IF x.c.Count = 0 THEN [num |-> 0, lo |-> 0, den |-> 1]
    ELSE [num |-> x.c.Sum, lo |-> x.sumLo, den |-> x.c.Count]

\* Counter.StdDev: the sign of c.sumOfSquares - c.Sum*c.Sum/fC, for Count > 0.
\* The grid parts decide unless they cancel; then the parts in 2^-53 decide.
SigmaSign(x) ==
    LET sq == x.c.Sum * x.c.Sum
        sqLo == RoundAbove(2 * x.c.Sum * x.sumLo, UlpUnits(sq), x.sumLo # 0)
        qLo == RoundQuotient(sqLo, x.c.Count, UlpUnits(x.c.sumOfSquares))
    IN  IF x.c.sumOfSquares * x.c.Count > sq THEN 1
        ELSE IF x.c.sumOfSquares * x.c.Count < sq THEN -1
        ELSE IF x.sqLo > qLo THEN 1
        ELSE IF x.sqLo < qLo THEN -1
        ELSE 0

\* Counter.StdDev without the test of sigma < 0: math.Sqrt of a negative number
StdDevUnchecked(x) ==
    IF x.c.Count = 0 THEN "zero"
    ELSE IF SigmaSign(x) < 0 THEN "NaN"
    ELSE IF SigmaSign(x) = 0 THEN "zero" ELSE "positive"

\* Counter.StdDev: what it returns, "zero" or "positive"
StdDev(x) ==
    IF x.c.Count = 0 THEN "zero"
    ELSE IF SigmaSign(x) < 0 THEN "zero"
    ELSE IF SigmaSign(x) = 0 THEN "zero" ELSE "positive"

InitCtr ==
    /\ fpc = "ready"
    /\ fin = [k \in CtrNames |-> EmptyCounterF]
    /\ fout = <<>>
    /\ hists = HistsAtStart(<<0, 1>>) /\ ops = 0 /\ panicked = FALSE /\ wide = WideEmpty
    /\ plan = NoPlan /\ hpc = "idle" /\ mpc = "none" /\ stopCalls = 0 /\ runErr = "none"
    /\ now = 0 /\ nticks = 0 /\ store = NoSnap /\ pub = PubOff /\ reg = RegAbsent
    /\ lock = 0 /\ rem = NoRem /\ chans = ChansAtStart /\ spc = [c \in Clients |-> "idle"]
    /\ last = [c \in Clients |-> NoSnap] /\ crashed = FALSE
    /\ offers = [c \in Clients |-> NoOffer] /\ pubRegs = {} /\ terminal = NoSnap
    /\ cfg = NoConfig /\ mon = "idle" /\ elapsed = 0 /\ progress = NoProgress
    /\ ropt = NoOptions /\ rpc = "idle" /\ ci = 0 /\ warm = 0
    /\ wpc = [k \in Workers |-> "off"] /\ counter = 0 /\ calls = [k \in Workers |-> 0]
    /\ after = [k \in Workers |-> 0] /\ stopped = FALSE /\ mu = "free" /\ stopCloses = 0
    /\ apc = [a \in Aborters |-> "idle"] /\ abortFailed = FALSE /\ rclock = 0
    /\ cleanEnd = FALSE
    /\ retCodes = [k \in Workers |-> NoCodes] /\ whist = [k \in Workers |-> 0]
    /\ live = NoLive /\ kafkaTotal = NoTotal /\ finalStats = NoStats /\ closedClients = 0

\* fin[k].Record(v)
CtrRecord(k, v) ==
    /\ ops < MaxCtrOps
    /\ fin' = [fin EXCEPT ![k] = RecordNC(@, v[1], v[2], 1)]
    /\ ops' = ops + 1
    /\ UNCHANGED <<hists, panicked, wide, fpc, fout, uiVars, runVars>>

\* fin[k].RecordN(v, n)
CtrRecordN(k, v, n) ==
    /\ ops < MaxCtrOps
    /\ fin' = [fin EXCEPT ![k] = RecordNC(@, v[1], v[2], n)]
    /\ ops' = ops + 1
    /\ UNCHANGED <<hists, panicked, wide, fpc, fout, uiVars, runVars>>

\* fin[d].Transfer(&fin[s])
CtrTransfer(d, s) ==
    /\ ops < MaxCtrOps
    /\ d # s
    /\ LET t == TransferC(fin[d], fin[s])
       IN  fin' = [fin EXCEPT ![d] = t[1], ![s] = t[2]]
    /\ ops' = ops + 1
    /\ UNCHANGED <<hists, panicked, wide, fpc, fout, uiVars, runVars>>

\* fin[k].Reset()
CtrReset(k) ==
    /\ ops < MaxCtrOps
    /\ fin' = [fin EXCEPT ![k] = EmptyCounterF]
    /\ ops' = ops + 1
    /\ UNCHANGED <<hists, panicked, wide, fpc, fout, uiVars, runVars>>

NextCtr ==
    \/ \E k \in CtrNames, v \in CtrVals : CtrRecord(k, v)
    \/ \E k \in CtrNames, v \in CtrVals, n \in CtrReps : CtrRecordN(k, v, n)
    \/ \E d \in CtrNames, s \in CtrNames : CtrTransfer(d, s)
    \/ \E k \in CtrNames : CtrReset(k)

SpecCtr == InitCtr /\ [][NextCtr]_vars

(***************************************************************************)
(* RecordN(v, n) against n calls of Record(v) on a histogram (0, 1): the   *)
(* Counter with its float64 arithmetic, and the buckets.                   *)
(***************************************************************************)
\* values recorded before the two are compared, at most
MaxRnRecs == 2

\* the repeat counts compared
RnReps == {1, 2, 3, 4}

\* h := NewHistogram(0, 1)
RnEmpty == [x |-> EmptyCounterF, Hdata |-> NewHistogram(0, 1).Hdata]

\* Histogram.RecordN that adds one to the bucket whatever n is
HistRecordNFOnce(st, g, lo, n) ==
    [x |-> RecordNC(st.x, g, lo, n),
     Hdata |-> record([Offset |-> 0, Divider |-> 1, Hdata |-> st.Hdata],
                      [num |-> g, den |-> 1, fine |-> IF lo > 0 THEN 1 ELSE 0],
                      1).Hdata]

\* Histogram.RecordN(g + lo*2^-53, n): Counter.RecordN, then record
HistRecordNF(st, g, lo, n) ==
    [x |-> RecordNC(st.x, g, lo, n),
     Hdata |-> record([Offset |-> 0, Divider |-> 1, Hdata |-> st.Hdata],
                      [num |-> g, den |-> 1, fine |-> IF lo > 0 THEN 1 ELSE 0],
                      n).Hdata]

\* n calls of Histogram.Record(g + lo*2^-53)
RECURSIVE RecordTimes(_, _, _, _)
RecordTimes(st, g, lo, n) ==
    IF n = 0 THEN st ELSE RecordTimes(HistRecordNF(st, g, lo, 1), g, lo, n - 1)

InitRn ==
    /\ fpc = "ready"
    /\ fin = [st |-> RnEmpty, recs |-> 0]
    /\ fout = <<>>
    /\ hists = HistsAtStart(<<0, 1>>) /\ ops = 0 /\ panicked = FALSE /\ wide = WideEmpty
    /\ plan = NoPlan /\ hpc = "idle" /\ mpc = "none" /\ stopCalls = 0 /\ runErr = "none"
    /\ now = 0 /\ nticks = 0 /\ store = NoSnap /\ pub = PubOff /\ reg = RegAbsent
    /\ lock = 0 /\ rem = NoRem /\ chans = ChansAtStart /\ spc = [c \in Clients |-> "idle"]
    /\ last = [c \in Clients |-> NoSnap] /\ crashed = FALSE
    /\ offers = [c \in Clients |-> NoOffer] /\ pubRegs = {} /\ terminal = NoSnap
    /\ cfg = NoConfig /\ mon = "idle" /\ elapsed = 0 /\ progress = NoProgress
    /\ ropt = NoOptions /\ rpc = "idle" /\ ci = 0 /\ warm = 0
    /\ wpc = [k \in Workers |-> "off"] /\ counter = 0 /\ calls = [k \in Workers |-> 0]
    /\ after = [k \in Workers |-> 0] /\ stopped = FALSE /\ mu = "free" /\ stopCloses = 0
    /\ apc = [a \in Aborters |-> "idle"] /\ abortFailed = FALSE /\ rclock = 0
    /\ cleanEnd = FALSE
    /\ retCodes = [k \in Workers |-> NoCodes] /\ whist = [k \in Workers |-> 0]
    /\ live = NoLive /\ kafkaTotal = NoTotal /\ finalStats = NoStats /\ closedClients = 0

\* h.Record(v), before the comparison
RnRecord(v) ==
    /\ fpc = "ready" /\ fin.recs < MaxRnRecs
    /\ fin' = [st |-> HistRecordNF(fin.st, v[1], v[2], 1), recs |-> fin.recs + 1]
    /\ UNCHANGED <<fpc, fout, histVars, uiVars, runVars>>

\* h.RecordN(v, n) on one copy of h, and n times h.Record(v) on another
RnCompare(v, n) ==
    /\ fpc = "ready"
    /\ fout' = [g |-> v[1], lo |-> v[2], n |-> n,
                byN |-> HistRecordNF(fin.st, v[1], v[2], n),
                byOne |-> RecordTimes(fin.st, v[1], v[2], n)]
    /\ fpc' = "compared"
    /\ UNCHANGED <<fin, histVars, uiVars, runVars>>

NextRn ==
    \/ \E v \in CtrVals : RnRecord(v)
    \/ \E v \in CtrVals, n \in RnReps : RnCompare(v, n)

SpecRn == InitRn /\ [][NextRn]_vars

(***************************************************************************)
(* ui: UpdateProgress.  The caller stores the snapshot under the lock of   *)
(* progressStore in the step that starts the call; notifySubscribers then  *)
(* copies the slice header under the read lock of sseSubscribers and, one  *)
(* element at a time and without any lock, reads the channel from the      *)
(* backing array and offers it the snapshot.                               *)
(***************************************************************************)
BeginPublish(who, snap) == [PubOff EXCEPT !.phase = "copy", !.who = who, !.snap = snap]

\* where the Handler is once the UpdateProgress call of `who` has returned
HpcAfter(who) ==
    IF who = "init" THEN "running" ELSE IF who = "final" THEN "done" ELSE hpc

\* where the monitor goroutine is once the UpdateProgress call of `who` has returned
MpcAfter(who) == IF who \in {"init", "tick"} THEN "select" ELSE mpc

\* the registry leaves its backing array: a notifySubscribers that holds a
\* header of it keeps the array as it is now
Detached(p) == IF p.shared THEN [p EXCEPT !.shared = FALSE, !.arr = reg.arr] ELSE p

\* Handler, mode run: startRunMonitor publishes the initial progress
HandlerStart ==
    /\ ~crashed /\ hpc = "idle"
    /\ hpc' = "init"
    /\ store' = Snap("running", 0)
    /\ pub' = BeginPublish("init", Snap("running", 0))
    /\ UNCHANGED <<plan, mpc, stopCalls, runErr, now, nticks, reg, lock, rem, chans, spc, last, crashed, offers, pubRegs, terminal,
                   monVars, histVars, funVars, runVars>>

\* monitor goroutine, case <-ticker.C: a new LiveProgress is published
Tick ==
    /\ ~crashed /\ mpc = "select" /\ nticks < plan.ticks
    /\ mpc' = "tick"
    /\ nticks' = nticks + 1
    /\ now' = now + 1
    /\ store' = Snap("running", now + 1)
    /\ pub' = BeginPublish("tick", Snap("running", now + 1))
    /\ UNCHANGED <<plan, hpc, stopCalls, runErr, reg, lock, rem, chans, spc, last, crashed, offers, pubRegs, terminal,
                   monVars, histVars, funVars, runVars>>

\* Handler: rapi.Run returns (e = "err" for a non-nil error) and the stop
\* function is called: close(stopCh), then it waits for doneCh
RunReturns(e) ==
    /\ ~crashed /\ hpc = "running"
    /\ hpc' = "stopping"
    /\ runErr' = e
    /\ stopCalls' = stopCalls + 1
    /\ UNCHANGED <<plan, mpc, now, nticks, store, pub, reg, lock, rem, chans, spc, last, crashed, offers, pubRegs, terminal,
                   monVars, histVars, funVars, runVars>>

\* monitor goroutine, case <-stopCh: return, the deferred close(doneCh) runs
MonitorExit ==
    /\ ~crashed /\ mpc = "select" /\ stopCalls > 0
    /\ mpc' = "exited"
    /\ UNCHANGED <<plan, hpc, stopCalls, runErr, now, nticks, store, pub, reg, lock, rem, chans, spc, last, crashed, offers, pubRegs, terminal,
                   monVars, histVars, funVars, runVars>>

\* a stop function that publishes the final progress without waiting for doneCh
StopFinalNoWait ==
    /\ ~crashed /\ hpc = "stopping" /\ pub.phase = "off"
    /\ LET p == Snap(IF runErr = "err" THEN "error" ELSE "completed", now + 1)
       IN  /\ store' = p
           /\ terminal' = p
           /\ pub' = BeginPublish("final", p)
    /\ now' = now + 1
    /\ hpc' = "final"
    /\ UNCHANGED <<plan, mpc, stopCalls, runErr, nticks, reg, lock, rem, chans, spc, last, crashed, offers, pubRegs,
                   monVars, histVars, funVars, runVars>>

\* stop function after <-doneCh: the final progress is published
StopFinal ==
    /\ ~crashed /\ hpc = "stopping" /\ mpc = "exited"
    /\ LET p == Snap(IF runErr = "err" THEN "error" ELSE "completed", now + 1)
       IN  /\ store' = p
           /\ terminal' = p
           /\ pub' = BeginPublish("final", p)
    /\ now' = now + 1
    /\ hpc' = "final"
    /\ UNCHANGED <<plan, mpc, stopCalls, runErr, nticks, reg, lock, rem, chans, spc, last, crashed, offers, pubRegs,
                   monVars, histVars, funVars, runVars>>

\* ClearProgress that leaves the entry of the run in place
ClearProgressKeeps(runs) == runs

\* ClearProgress: delete(progressStore.runs, runID)
ClearProgress(runs) == NoSnap

\* GetProgress: progressStore.runs[runID], nil when there is no entry
GetProgress(runs) == runs

\* the body that ProgressAPIHandler writes for a valid runid
NotFound == [status |-> "not_found", elapsed |-> 0]

ProgressAPIHandler(runs) ==
    IF GetProgress(runs) = NoSnap THEN NotFound ELSE GetProgress(runs)

\* the goroutine started by the stop function: ClearProgress after the delay
Evict ==
    /\ ~crashed /\ hpc = "done"
    /\ hpc' = "evicted"
    /\ store' = ClearProgress(store)
    /\ UNCHANGED <<plan, mpc, stopCalls, runErr, now, nticks, pub, reg, lock, rem, chans, spc, last, crashed, offers, pubRegs, terminal,
                   monVars, histVars, funVars, runVars>>

\* notifySubscribers: clients := sseSubscribers.clients[runID] under the read lock
PubCopy ==
    /\ ~crashed /\ pub.phase = "copy" /\ lock = 0
    /\ offers' = [c \in Clients |-> NoOffer]
    /\ pubRegs' = {reg.arr[k] : k \in 1 .. reg.len}
    /\ IF reg.len = 0
       THEN /\ pub' = PubOff
            /\ hpc' = HpcAfter(pub.who)
            /\ mpc' = MpcAfter(pub.who)
       ELSE /\ pub' = [pub EXCEPT !.phase = "read", !.shared = TRUE,
                                  !.len = reg.len, !.i = 1]
            /\ UNCHANGED <<hpc, mpc>>
    /\ UNCHANGED <<plan, stopCalls, runErr, now, nticks, store, reg, lock, rem, chans, spc, last, crashed, terminal,
                   monVars, histVars, funVars, runVars>>

\* notifySubscribers: the range loop reads element i of the backing array
PubRead ==
    /\ ~crashed /\ pub.phase = "read"
    /\ pub' = [pub EXCEPT !.phase = "send",
                          !.cur = (IF pub.shared THEN reg.arr ELSE pub.arr)[pub.i]]
    /\ UNCHANGED <<plan, hpc, mpc, stopCalls, runErr, now, nticks, store, reg, lock, rem, chans, spc, last, crashed, offers, pubRegs, terminal,
                   monVars, histVars, funVars, runVars>>

\* notifySubscribers: select { case ch <- progress: default: }.  A send on a
\* closed channel panics: in the monitor goroutine this ends the process, in
\* the Handler the HTTP server recovers it and the request is abandoned.
PubSend ==
    /\ ~crashed /\ pub.phase = "send"
    /\ LET c == pub.cur
           free == Len(chans[c].buf) < BufSize
       IN  IF chans[c].closed
           THEN /\ pub' = PubOff
                /\ crashed' = (pub.who = "tick")
                /\ hpc' = IF pub.who = "tick" THEN hpc ELSE "aborted"
                /\ pubRegs' = {}
                /\ UNCHANGED <<chans, offers, mpc>>
           ELSE /\ chans' = IF free THEN [chans EXCEPT ![c].buf = Append(@, pub.snap)]
                            ELSE chans
                /\ offers' = [offers EXCEPT ![c] =
                                 [n |-> @.n + 1,
                                  q |-> @.q + (IF free THEN 1 ELSE 0),
                                  full |-> @.full \/ ~free]]
                /\ IF pub.i = pub.len
                   THEN /\ pub' = PubOff
                        /\ hpc' = HpcAfter(pub.who)
                        /\ mpc' = MpcAfter(pub.who)
                   ELSE /\ pub' = [pub EXCEPT !.phase = "read", !.i = @ + 1, !.cur = 0]
                        /\ UNCHANGED <<hpc, mpc>>
                /\ UNCHANGED <<crashed, pubRegs>>
    /\ UNCHANGED <<plan, stopCalls, runErr, now, nticks, store, reg, lock, rem, spc, last, terminal,
                   monVars, histVars, funVars, runVars>>

(***************************************************************************)
(* ui: ProgressSSEHandler of observer c, its channel is chans[c].          *)
(***************************************************************************)
\* addSubscriber: append the new channel to the slice of the runID
SseAdd(c) ==
    /\ ~crashed /\ c \in plan.clients /\ spc[c] = "idle" /\ lock = 0
    /\ LET cap == Len(reg.arr)
       IN  IF reg.len < cap
           THEN /\ reg' = [arr |-> [reg.arr EXCEPT ![reg.len + 1] = c],
                           len |-> reg.len + 1]
                /\ UNCHANGED pub
           ELSE /\ reg' = [arr |-> [k \in 1 .. GrowCap(cap) |->
                                       IF k <= reg.len THEN reg.arr[k]
                                       ELSE IF k = reg.len + 1 THEN c ELSE 0],
                           len |-> reg.len + 1]
                /\ pub' = Detached(pub)
    /\ spc' = [spc EXCEPT ![c] = "added"]
    /\ UNCHANGED <<plan, hpc, mpc, stopCalls, runErr, now, nticks, store, lock, rem, chans, last, crashed, offers, pubRegs, terminal,
                   monVars, histVars, funVars, runVars>>

\* "Send current state if available": GetProgress, then sendSSEEvent
SseCurrent(c) ==
    /\ ~crashed /\ spc[c] = "added"
    /\ last' = IF store # NoSnap THEN [last EXCEPT ![c] = store] ELSE last
    /\ spc' = [spc EXCEPT ![c] = "loop"]
    /\ UNCHANGED <<plan, hpc, mpc, stopCalls, runErr, now, nticks, store, pub, reg, lock, rem, chans, crashed, offers, pubRegs, terminal,
                   monVars, histVars, funVars, runVars>>

\* case progress, ok := <-ch: send it, return on a terminal status
SseRecv(c) ==
    /\ ~crashed /\ spc[c] = "loop" /\ chans[c].buf # <<>>
    /\ LET p == Head(chans[c].buf)
       IN  /\ last' = [last EXCEPT ![c] = p]
           /\ spc' = [spc EXCEPT ![c] = IF IsTerminal(p) THEN "closing" ELSE "loop"]
    /\ chans' = [chans EXCEPT ![c].buf = Tail(@)]
    /\ UNCHANGED <<plan, hpc, mpc, stopCalls, runErr, now, nticks, store, pub, reg, lock, rem, crashed, offers, pubRegs, terminal,
                   monVars, histVars, funVars, runVars>>

\* case <-r.Context().Done(): the observer went away
SseDisconnect(c) ==
    /\ ~crashed /\ spc[c] = "loop" /\ c \in Leavers
    /\ spc' = [spc EXCEPT ![c] = "closing"]
    /\ UNCHANGED <<plan, hpc, mpc, stopCalls, runErr, now, nticks, store, pub, reg, lock, rem, chans, last, crashed, offers, pubRegs, terminal,
                   monVars, histVars, funVars, runVars>>

\* deferred removeSubscriber: take the write lock and find the channel
RemBegin(c) ==
    /\ ~crashed /\ spc[c] = "closing" /\ lock = 0
    /\ lock' = c
    /\ LET i == CHOOSE k \in 1 .. reg.len : reg.arr[k] = c
       IN  rem' = [i |-> i, j |-> i]
    /\ UNCHANGED <<plan, hpc, mpc, stopCalls, runErr, now, nticks, store, pub, reg, chans, spc, last, crashed, offers, pubRegs, terminal,
                   monVars, histVars, funVars, runVars>>

\* removeSubscriber: append(clients[:i], clients[i+1:]...) moves the elements
\* behind i down by one, in place, one element at a time
RemShift(c) ==
    /\ ~crashed /\ lock = c /\ rem.j < reg.len
    /\ reg' = [reg EXCEPT !.arr[rem.j] = reg.arr[rem.j + 1]]
    /\ rem' = [rem EXCEPT !.j = @ + 1]
    /\ UNCHANGED <<plan, hpc, mpc, stopCalls, runErr, now, nticks, store, pub, lock, chans, spc, last, crashed, offers, pubRegs, terminal,
                   monVars, histVars, funVars, runVars>>

\* removeSubscriber: store the shorter slice, close(ch), delete the entry of
\* the runID when no subscriber is left, release the lock
RemFinish(c) ==
    /\ ~crashed /\ lock = c /\ rem.j = reg.len
    /\ IF reg.len = 1
       THEN /\ reg' = RegAbsent
            /\ pub' = Detached(pub)
       ELSE /\ reg' = [reg EXCEPT !.len = @ - 1]
            /\ UNCHANGED pub
    /\ chans' = [chans EXCEPT ![c] = [buf |-> <<>>, closed |-> TRUE]]
    /\ spc' = [spc EXCEPT ![c] = "gone"]
    /\ lock' = 0
    /\ rem' = NoRem
    /\ UNCHANGED <<plan, hpc, mpc, stopCalls, runErr, now, nticks, store, last, crashed, offers, pubRegs, terminal,
                   monVars, histVars, funVars, runVars>>

InitUI ==
    /\ plan \in Plans
    /\ hpc = "idle" /\ mpc = "none" /\ stopCalls = 0 /\ runErr = "none"
    /\ now = 0 /\ nticks = 0 /\ store = NoSnap /\ pub = PubOff /\ reg = RegAbsent
    /\ lock = 0 /\ rem = NoRem /\ chans = ChansAtStart /\ spc = [c \in Clients |-> "idle"]
    /\ last = [c \in Clients |-> NoSnap] /\ crashed = FALSE
    /\ offers = [c \in Clients |-> NoOffer] /\ pubRegs = {} /\ terminal = NoSnap
    /\ cfg = NoConfig /\ mon = "idle" /\ elapsed = 0 /\ progress = NoProgress
    /\ ropt = NoOptions /\ rpc = "idle" /\ ci = 0 /\ warm = 0
    /\ wpc = [k \in Workers |-> "off"] /\ counter = 0 /\ calls = [k \in Workers |-> 0]
    /\ after = [k \in Workers |-> 0] /\ stopped = FALSE /\ mu = "free" /\ stopCloses = 0
    /\ apc = [a \in Aborters |-> "idle"] /\ abortFailed = FALSE /\ rclock = 0
    /\ cleanEnd = FALSE
    /\ retCodes = [k \in Workers |-> NoCodes] /\ whist = [k \in Workers |-> 0]
    /\ live = NoLive /\ kafkaTotal = NoTotal /\ finalStats = NoStats /\ closedClients = 0
    /\ hists = HistsAtStart(<<0, 1>>) /\ ops = 0 /\ panicked = FALSE /\ wide = WideEmpty
    /\ fpc = "idle" /\ fin = <<>> /\ fout = <<>>

NextUI ==
    \/ HandlerStart
    \/ Tick
    \/ \E e \in {"nil", "err"} : RunReturns(e)
    \/ MonitorExit
    \/ StopFinal
    \/ Evict
    \/ PubCopy
    \/ PubRead
    \/ PubSend
    \/ \E c \in Clients : SseAdd(c)
    \/ \E c \in Clients : SseCurrent(c)
    \/ \E c \in Clients : SseRecv(c)
    \/ \E c \in Leavers : SseDisconnect(c)
    \/ \E c \in Clients : RemBegin(c)
    \/ \E c \in Clients : RemShift(c)
    \/ \E c \in Clients : RemFinish(c)

SpecUI == InitUI /\ [][NextUI]_vars

\* the steps that the scheduler and rapi.Run make whenever they can
UIProgress ==
    \/ \E e \in {"nil", "err"} : RunReturns(e)
    \/ MonitorExit
    \/ StopFinal
    \/ PubCopy
    \/ PubRead
    \/ PubSend
    \/ \E c \in Clients : RemBegin(c) \/ RemShift(c) \/ RemFinish(c)

FairSpecUI == SpecUI /\ WF_vars(UIProgress)

\* the same, and the ProgressSSEHandler of every observer runs whenever it can
FairSpecSSE ==
    /\ FairSpecUI
    /\ \A c \in Clients : WF_vars(SseCurrent(c) \/ SseRecv(c))

(***************************************************************************)
(* The subscriber registry by itself: addSubscriber and removeSubscriber   *)
(* run under the write lock of sseSubscribers, so any number of observers  *)
(* amounts to a sequence of calls.  A slice is a backing array and a       *)
(* length, as in reg above.                                                *)
(***************************************************************************)
\* subscribe and unsubscribe calls made at most
MaxRegOps == 5

\* the runIDs subscribed to
RunIDs == {1, 2}

\* the channels that addSubscriber makes, in this order
Chs == {1, 2, 3}

\* sseSubscribers.clients, the times each channel was closed, the next channel
\* to make, and what the callers did: which channels were subscribed (and to
\* which run) and which of them unsubscribed
RegistryAtStart ==
    [clients |-> [r \in RunIDs |-> RegAbsent],
     closes |-> [ch \in Chs |-> 0],
     made |-> 0,
     run |-> [ch \in Chs |-> 0],
     left |-> {},
     calls |-> 0]

\* append(slice, ch)
AppendSlice(sl, ch) ==
    LET cap == Len(sl.arr)
    IN  IF sl.len < cap
        THEN [arr |-> [sl.arr EXCEPT ![sl.len + 1] = ch], len |-> sl.len + 1]
        ELSE [arr |-> [k \in 1 .. GrowCap(cap) |->
                          IF k <= sl.len THEN sl.arr[k]
                          ELSE IF k = sl.len + 1 THEN ch ELSE 0],
              len |-> sl.len + 1]

\* addSubscriber(runID): the channel made is appended to the slice of the run
addSubscriber(st, r) ==
    LET ch == st.made + 1
    IN  [st EXCEPT !.clients[r] = AppendSlice(@, ch),
                   !.made = ch,
                   !.run[ch] = r,
                   !.calls = @ + 1]

\* append(clients[:i], clients[i+1:]...): the elements behind i move down by
\* one in the same backing array
CutSlice(sl, i) ==
    [arr |-> [k \in 1 .. Len(sl.arr) |->
                 IF k >= i /\ k < sl.len THEN sl.arr[k + 1] ELSE sl.arr[k]],
     len |-> sl.len - 1]

\* removeSubscriber that closes the channel whether it is found or not
removeSubscriberAlwaysCloses(st, r, ch) ==
    LET sl == st.clients[r]
        found == {i \in 1 .. sl.len : sl.arr[i] = ch}
        cut == IF found = {} THEN sl
               ELSE CutSlice(sl, CHOOSE i \in found : \A j \in found : i <= j)
    IN  [st EXCEPT !.clients[r] = IF cut.len = 0 THEN RegAbsent ELSE cut,
                   !.closes[ch] = @ + 1,
                   !.left = @ \cup {ch},
                   !.calls = @ + 1]

\* removeSubscriber(runID, ch): the first element equal to ch is cut out and ch
\* is closed; the entry of the run is deleted when its slice is empty
removeSubscriber(st, r, ch) ==
    LET sl == st.clients[r]
        found == {i \in 1 .. sl.len : sl.arr[i] = ch}
        cut == IF found = {} THEN sl
               ELSE CutSlice(sl, CHOOSE i \in found : \A j \in found : i <= j)
    IN  [st EXCEPT !.clients[r] = IF cut.len = 0 THEN RegAbsent ELSE cut,
                   !.closes[ch] = IF found = {} THEN @ ELSE @ + 1,
                   !.left = @ \cup {ch},
                   !.calls = @ + 1]

InitReg ==
    /\ ropt = NoOptions /\ rpc = "idle" /\ ci = 0 /\ warm = 0
    /\ wpc = [k \in Workers |-> "off"] /\ counter = 0 /\ calls = [k \in Workers |-> 0]
    /\ after = [k \in Workers |-> 0] /\ stopped = FALSE /\ mu = "free" /\ stopCloses = 0
    /\ apc = [a \in Aborters |-> "idle"] /\ abortFailed = FALSE /\ rclock = 0
    /\ cleanEnd = FALSE
    /\ retCodes = [k \in Workers |-> NoCodes] /\ whist = [k \in Workers |-> 0]
    /\ live = NoLive /\ kafkaTotal = NoTotal /\ finalStats = NoStats /\ closedClients = 0
    /\ plan = NoPlan /\ hpc = "idle" /\ mpc = "none" /\ stopCalls = 0 /\ runErr = "none"
    /\ now = 0 /\ nticks = 0 /\ store = NoSnap /\ pub = PubOff /\ reg = RegAbsent
    /\ lock = 0 /\ rem = NoRem /\ chans = ChansAtStart /\ spc = [c \in Clients |-> "idle"]
    /\ last = [c \in Clients |-> NoSnap] /\ crashed = FALSE
    /\ offers = [c \in Clients |-> NoOffer] /\ pubRegs = {} /\ terminal = NoSnap
    /\ cfg = NoConfig /\ mon = "idle" /\ elapsed = 0 /\ progress = NoProgress
    /\ hists = HistsAtStart(<<0, 1>>) /\ ops = 0 /\ panicked = FALSE /\ wide = WideEmpty
    /\ fpc = "idle" /\ fin = RegistryAtStart /\ fout = <<>>

\* an observer subscribes to run r
Subscribe(r) ==
    /\ fin.calls < MaxRegOps /\ fin.made < Cardinality(Chs)
    /\ fin' = addSubscriber(fin, r)
    /\ UNCHANGED <<fpc, fout, histVars, uiVars, runVars>>

\* the observer holding channel ch unsubscribes (once more, possibly)
Unsubscribe(ch) ==
    /\ fin.calls < MaxRegOps /\ ch <= fin.made
    /\ fin' = removeSubscriber(fin, fin.run[ch], ch)
    /\ UNCHANGED <<fpc, fout, histVars, uiVars, runVars>>

NextReg ==
    \/ \E r \in RunIDs : Subscribe(r)
    \/ \E ch \in Chs : Unsubscribe(ch)

SpecReg == InitReg /\ [][NextReg]_vars

(***************************************************************************)
(* The UI Handler taking a request to start a run (load=Start): the form   *)
(* values, the run ID and the progress entry.  A percentile list is the    *)
(* sequence of its comma-separated items after TrimSpace, each a number    *)
(* (in units of 1 percent), empty, or not a number.                        *)
(***************************************************************************)
\* requests handled at most
MaxRequests == 3

Item(kind, v) == [kind |-> kind, v |-> v]

\* values of the form field p
PercForms == { <<Item("num", 50)>>,
               <<Item("num", 50), Item("empty", 0), Item("num", 99)>>,
               <<Item("bad", 0)>>,
               <<Item("num", 50), Item("num", 100)>>,
               <<Item("num", 0)>>,
               <<Item("empty", 0)>>,
               <<Item("num", 90), Item("bad", 0)>> }

\* values of the form field t: a duration, "on" (until interrupted), or a
\* string that time.ParseDuration rejects
DurForms == {"3s", "on", "3 parsecs"}

\* values of the form field r: a resolution, or one that parses to zero
ResForms == {"0.001", "0"}

\* ParsePercentiles, the loop from item i on with res so far
RECURSIVE ParseLoop(_, _, _)
ParseLoop(percs, i, res) ==
    IF i > Len(percs)
    THEN IF Len(res) = 0 THEN [res |-> res, err |-> "list can't be empty"]
         ELSE [res |-> res, err |-> "nil"]
    ELSE LET pStr == percs[i]
         IN  IF pStr.kind = "empty" THEN ParseLoop(percs, i + 1, res)
             ELSE IF pStr.kind = "bad" THEN [res |-> res, err |-> "invalid syntax"]
             ELSE IF pStr.v <= 0 \/ pStr.v >= 100
                  THEN [res |-> res, err |-> "must be > 0 and < 100"]
             ELSE ParseLoop(percs, i + 1, Append(res, pStr.v))

ParsePercentiles(percentiles) == ParseLoop(percentiles, 1, <<>>)

\* time.ParseDuration of the form field t
ParseDuration(durStr) ==
    IF durStr = "3s" THEN [dur |-> 3, err |-> "nil"]
    ELSE [dur |-> 0, err |-> "invalid duration"]

\* no request yet
NoRequest == [p |-> <<>>, t |-> "", r |-> ""]

\* rapi.NextRunID has given no ID and progressStore.runs is empty
ServerAtStart ==
    [lastRunID |-> 0, runs |-> {}, runid |-> 0, handled |-> 0,
     ro |-> [Percentiles |-> <<>>, Duration |-> 0]]

\* the request has a configuration error
ConfigError(req) ==
    \/ ParsePercentiles(req.p).err # "nil"
    \/ req.t # "on" /\ ParseDuration(req.t).err # "nil"
    \/ req.r = "0"

\* Handler, mode run: percList, _ := ParsePercentiles(...); the error of
\* ParseDuration is logged; runid = rapi.NextRunID(); startRunMonitor stores
\* the initial progress of the run
HandlerRun(srv, req) ==
    LET percList == ParsePercentiles(req.p).res
        dur == IF req.t = "on" THEN -1 ELSE ParseDuration(req.t).dur
        runid == srv.lastRunID + 1
    IN  [lastRunID |-> runid,
         runs |-> srv.runs \cup {runid},
         runid |-> runid,
         handled |-> srv.handled + 1,
         ro |-> [Percentiles |-> percList, Duration |-> dur]]

InitReq ==
    /\ ropt = NoOptions /\ rpc = "idle" /\ ci = 0 /\ warm = 0
    /\ wpc = [k \in Workers |-> "off"] /\ counter = 0 /\ calls = [k \in Workers |-> 0]
    /\ after = [k \in Workers |-> 0] /\ stopped = FALSE /\ mu = "free" /\ stopCloses = 0
    /\ apc = [a \in Aborters |-> "idle"] /\ abortFailed = FALSE /\ rclock = 0
    /\ cleanEnd = FALSE
    /\ retCodes = [k \in Workers |-> NoCodes] /\ whist = [k \in Workers |-> 0]
    /\ live = NoLive /\ kafkaTotal = NoTotal /\ finalStats = NoStats /\ closedClients = 0
    /\ plan = NoPlan /\ hpc = "idle" /\ mpc = "none" /\ stopCalls = 0 /\ runErr = "none"
    /\ now = 0 /\ nticks = 0 /\ store = NoSnap /\ pub = PubOff /\ reg = RegAbsent
    /\ lock = 0 /\ rem = NoRem /\ chans = ChansAtStart /\ spc = [c \in Clients |-> "idle"]
    /\ last = [c \in Clients |-> NoSnap] /\ crashed = FALSE
    /\ offers = [c \in Clients |-> NoOffer] /\ pubRegs = {} /\ terminal = NoSnap
    /\ cfg = NoConfig /\ mon = "idle" /\ elapsed = 0 /\ progress = NoProgress
    /\ hists = HistsAtStart(<<0, 1>>) /\ ops = 0 /\ panicked = FALSE /\ wide = WideEmpty
    /\ fpc = "idle" /\ fin = NoRequest /\ fout = ServerAtStart

\* a request to start a run arrives and is handled
Request(req) ==
    /\ fout.handled < MaxRequests
    /\ fin' = req
    /\ fout' = HandlerRun(fout, req)
    /\ UNCHANGED <<fpc, histVars, uiVars, runVars>>

NextReq ==
    \E p \in PercForms, t \in DurForms, r \in ResForms :
        Request([p |-> p, t |-> t, r |-> r])

SpecReq == InitReq /\ [][NextReq]_vars

(***************************************************************************)
(* The progress of a run as the two monitors publish it: startRunMonitor   *)
(* (used by the UI Handler) and StartProgressMonitor.  Times are in units  *)
(* of 0.1 s; a percentage is kept as an exact quotient, and since float64  *)
(* rounding is monotone it moves no value across the limits 0, 99 and 100  *)
(* from the side the exact value is on.                                    *)
(***************************************************************************)
\* the monitors
Impls == {"startRunMonitor", "StartProgressMonitor"}

\* expectedSeconds: unknown (negative or 0), shorter than a tick, and long
ExpectedAsked == {-10, 0, 2, 30, 2000}

\* the instants at which a tick or the stop may read the clock
Instants == {3, 6, 29, 30, 31, 1985, 2000, 2003}

PercentLeq(p, n) == p.num <= n * p.den

\* the tick of both monitors: the percentage of the expected time when it is
\* known, and `cap` when that exceeds 100
TickPercent(t, expected, cap) ==
    IF expected > 0
    THEN IF t * 100 > 100 * expected THEN Percent(cap, 1) ELSE Percent(t * 100, expected)
    ELSE Percent(0, 1)

\* startRunMonitor, case <-ticker.C: progressPercent
RunMonitorPercent(t, expected) == TickPercent(t, expected, 99)

\* StartProgressMonitor, case <-ticker.C: progressPercent
ProgressMonitorPercent(t, expected) == TickPercent(t, expected, 100)

\* the stop function of startRunMonitor: ProgressPercent of finalProgress
RunMonitorFinal(p, expected) == Percent(100, 1)

\* the stop function of StartProgressMonitor: progress.ProgressPercent is set
\* only when the expected time is known
ProgressMonitorFinal(p, expected) == IF expected > 0 THEN Percent(100, 1) ELSE p

\* what rapi.Run may return to the Handler: nil, or the error of a run that
\* failed before or in the paced loop
RunErrors == {"nil", "unable to create client", "validation failed"}

\* Handler: the status given to the stop function for the error of the run
FinalStatus(err) == IF err # "nil" THEN "error" ELSE "completed"

\* a monitor is started: the initial progress is published
MonStart(impl, expected) ==
    /\ mon = "idle"
    /\ cfg' = [impl |-> impl, ExpectedSeconds |-> expected]
    /\ mon' = "running"
    /\ progress' = [Status |-> "running", ElapsedSeconds |-> 0,
                    ProgressPercent |-> Percent(0, 1), LastError |-> ""]
    /\ UNCHANGED <<elapsed, plan, hpc, mpc, stopCalls, runErr, now, nticks, store, pub,
                   reg, lock, rem, chans, spc, last, crashed, offers, pubRegs,
                   terminal, histVars, funVars, runVars>>

\* the goroutine of the monitor, case <-ticker.C at time t: a progress with
\* status "running" is published
MonTick(t) ==
    /\ mon = "running" /\ t > elapsed
    /\ elapsed' = t
    /\ progress' = [Status |-> "running", ElapsedSeconds |-> t,
                    ProgressPercent |->
                        IF cfg.impl = "startRunMonitor"
                        THEN RunMonitorPercent(t, cfg.ExpectedSeconds)
                        ELSE ProgressMonitorPercent(t, cfg.ExpectedSeconds),
                    LastError |-> ""]
    /\ UNCHANGED <<cfg, mon, plan, hpc, mpc, stopCalls, runErr, now, nticks, store, pub,
                   reg, lock, rem, chans, spc, last, crashed, offers, pubRegs,
                   terminal, histVars, funVars, runVars>>

\* the stop function is called at time t with the final status, which is all it
\* is given of the outcome of the run: the goroutine ends and the final progress
\* is published, its LastError as it was (never assigned)
MonStop(t, status) ==
    /\ mon = "running" /\ t >= elapsed
    /\ elapsed' = t
    /\ mon' = "stopped"
    /\ progress' = [Status |-> status, ElapsedSeconds |-> t,
                    ProgressPercent |->
                        IF cfg.impl = "startRunMonitor"
                        THEN RunMonitorFinal(progress.ProgressPercent, cfg.ExpectedSeconds)
                        ELSE ProgressMonitorFinal(progress.ProgressPercent,
                                                  cfg.ExpectedSeconds),
                    LastError |-> progress.LastError]
    /\ UNCHANGED <<cfg, plan, hpc, mpc, stopCalls, runErr, now, nticks, store, pub,
                   reg, lock, rem, chans, spc, last, crashed, offers, pubRegs,
                   terminal, histVars, funVars, runVars>>

InitMon ==
    /\ ropt = NoOptions /\ rpc = "idle" /\ ci = 0 /\ warm = 0
    /\ wpc = [k \in Workers |-> "off"] /\ counter = 0 /\ calls = [k \in Workers |-> 0]
    /\ after = [k \in Workers |-> 0] /\ stopped = FALSE /\ mu = "free" /\ stopCloses = 0
    /\ apc = [a \in Aborters |-> "idle"] /\ abortFailed = FALSE /\ rclock = 0
    /\ cleanEnd = FALSE
    /\ retCodes = [k \in Workers |-> NoCodes] /\ whist = [k \in Workers |-> 0]
    /\ live = NoLive /\ kafkaTotal = NoTotal /\ finalStats = NoStats /\ closedClients = 0
    /\ plan = NoPlan /\ hpc = "idle" /\ mpc = "none" /\ stopCalls = 0 /\ runErr = "none"
    /\ now = 0 /\ nticks = 0 /\ store = NoSnap /\ pub = PubOff /\ reg = RegAbsent
    /\ lock = 0 /\ rem = NoRem /\ chans = ChansAtStart /\ spc = [c \in Clients |-> "idle"]
    /\ last = [c \in Clients |-> NoSnap] /\ crashed = FALSE
    /\ offers = [c \in Clients |-> NoOffer] /\ pubRegs = {} /\ terminal = NoSnap
    /\ cfg = NoConfig /\ mon = "idle" /\ elapsed = 0 /\ progress = NoProgress
    /\ hists = HistsAtStart(<<0, 1>>) /\ ops = 0 /\ panicked = FALSE /\ wide = WideEmpty
    /\ fpc = "idle" /\ fin = <<>> /\ fout = <<>>

NextMon ==
    \/ \E impl \in Impls, expected \in ExpectedAsked : MonStart(impl, expected)
    \/ \E t \in Instants : MonTick(t)
    \/ \E t \in Instants \cup {0}, err \in RunErrors : MonStop(t, FinalStatus(err))

SpecMon == InitMon /\ [][NextMon]_vars

(***************************************************************************)
(* The LiveProgress objects of one run.  progressStore and the subscriber  *)
(* channels hold pointers to LiveProgress: a snapshot is an object of the  *)
(* heap, and what a poller or a subscriber reads from it is what the       *)
(* object holds when json.Marshal reads it.  startRunMonitor builds a new  *)
(* object for every publish; StartProgressMonitor builds one and assigns   *)
(* its fields, one after the other, before every later publish.            *)
(***************************************************************************)
\* ticks of the monitor at most
MaxSnapTicks == 3

\* what getStats may add to the total between two readings
StatsSteps == {0, 2}

\* &LiveProgress{Status: ..., ElapsedSeconds: ..., RequestsTotal: ...}
NewLive(status, el, n) == [Status |-> status, ElapsedSeconds |-> el, RequestsTotal |-> n]

\* a pointer, with the value its object had when the pointer was handed over
Published(heap, ref) == [ref |-> ref, was |-> heap[ref]]

\* UpdateProgress(runID, progress): the pointer is stored, and offered to the
\* channel of the subscriber
UpdateProgressPtr(o, ref) ==
    [o EXCEPT !.store = Published(o.heap, ref),
              !.queue = IF Len(@) < BufSize THEN Append(@, Published(o.heap, ref)) ELSE @]

InitSnap ==
    /\ fpc = "idle"
    /\ fin = <<>>
    /\ fout = <<>>
    /\ hists = HistsAtStart(<<0, 1>>) /\ ops = 0 /\ panicked = FALSE /\ wide = WideEmpty
    /\ plan = NoPlan /\ hpc = "idle" /\ mpc = "none" /\ stopCalls = 0 /\ runErr = "none"
    /\ now = 0 /\ nticks = 0 /\ store = NoSnap /\ pub = PubOff /\ reg = RegAbsent
    /\ lock = 0 /\ rem = NoRem /\ chans = ChansAtStart /\ spc = [c \in Clients |-> "idle"]
    /\ last = [c \in Clients |-> NoSnap] /\ crashed = FALSE
    /\ offers = [c \in Clients |-> NoOffer] /\ pubRegs = {} /\ terminal = NoSnap
    /\ cfg = NoConfig /\ mon = "idle" /\ elapsed = 0 /\ progress = NoProgress
    /\ ropt = NoOptions /\ rpc = "idle" /\ ci = 0 /\ warm = 0
    /\ wpc = [k \in Workers |-> "off"] /\ counter = 0 /\ calls = [k \in Workers |-> 0]
    /\ after = [k \in Workers |-> 0] /\ stopped = FALSE /\ mu = "free" /\ stopCloses = 0
    /\ apc = [a \in Aborters |-> "idle"] /\ abortFailed = FALSE /\ rclock = 0
    /\ cleanEnd = FALSE
    /\ retCodes = [k \in Workers |-> NoCodes] /\ whist = [k \in Workers |-> 0]
    /\ live = NoLive /\ kafkaTotal = NoTotal /\ finalStats = NoStats /\ closedClients = 0

\* the monitor is started: the initial progress is built and published
SnapStart(impl) ==
    /\ fpc = "idle"
    /\ fin' = [impl |-> impl]
    /\ fout' = UpdateProgressPtr(
                   [heap |-> <<NewLive("running", 0, 0)>>,
                    store |-> Published(<<NewLive("running", 0, 0)>>, 1),
                    queue |-> <<>>,
                    read |-> Published(<<NewLive("running", 0, 0)>>, 1),
                    clock |-> 0, ticks |-> 0, final |-> FALSE], 1)
    /\ fpc' = "select"
    /\ UNCHANGED <<histVars, uiVars, runVars>>

\* case <-ticker.C.  startRunMonitor: newProgress := &LiveProgress{...} and
\* UpdateProgress(runID, newProgress).  StartProgressMonitor:
\* progress.ElapsedSeconds = elapsed, on the object published before.
SnapTick(d) ==
    /\ fpc = "select" /\ fout.ticks < MaxSnapTicks
    /\ IF fin.impl = "startRunMonitor"
       THEN LET prev == fout.heap[Len(fout.heap)]
                heap == Append(fout.heap,
                               NewLive("running", fout.clock + 1, prev.RequestsTotal + d))
            IN  /\ fout' = UpdateProgressPtr(
                               [fout EXCEPT !.heap = heap, !.clock = @ + 1, !.ticks = @ + 1],
                               Len(heap))
                /\ UNCHANGED fpc
       ELSE /\ d = 0
            /\ fout' = [fout EXCEPT !.heap[1].ElapsedSeconds = fout.clock + 1,
                                    !.clock = @ + 1, !.ticks = @ + 1]
            /\ fpc' = "counters"
    /\ UNCHANGED <<fin, histVars, uiVars, runVars>>

\* the stop function, after <-doneCh.  startRunMonitor: finalProgress :=
\* &LiveProgress{...} and UpdateProgress(runID, finalProgress).
\* StartProgressMonitor: progress.Status = status and progress.ElapsedSeconds
\* = ..., on the object published before.
SnapStop(status, d) ==
    /\ fpc = "select"
    /\ IF fin.impl = "startRunMonitor"
       THEN LET prev == fout.heap[Len(fout.heap)]
                heap == Append(fout.heap,
                               NewLive(status, fout.clock + 1, prev.RequestsTotal + d))
            IN  /\ fout' = UpdateProgressPtr(
                               [fout EXCEPT !.heap = heap, !.clock = @ + 1, !.final = TRUE],
                               Len(heap))
                /\ fpc' = "stopped"
       ELSE /\ d = 0
            /\ fout' = [fout EXCEPT !.heap[1].Status = status,
                                    !.heap[1].ElapsedSeconds = fout.clock + 1,
                                    !.clock = @ + 1, !.final = TRUE]
            /\ fpc' = "counters"
    /\ UNCHANGED <<fin, histVars, uiVars, runVars>>

\* StartProgressMonitor: progress.RequestsTotal = total (and the other
\* counters), from getStats
SnapCounters(d) ==
    /\ fpc = "counters"
    /\ fout' = [fout EXCEPT !.heap[1].RequestsTotal = @ + d]
    /\ fpc' = "publish"
    /\ UNCHANGED <<fin, histVars, uiVars, runVars>>

\* StartProgressMonitor: UpdateProgress(cfg.RunID, progress), the same pointer
SnapPublish ==
    /\ fpc = "publish"
    /\ fout' = UpdateProgressPtr(fout, 1)
    /\ fpc' = IF fout.final THEN "stopped" ELSE "select"
    /\ UNCHANGED <<fin, histVars, uiVars, runVars>>

\* ProgressSSEHandler: progress := <-ch; sendSSEEvent marshals the object
SnapRecv ==
    /\ fpc \notin {"idle"} /\ fout.queue # <<>>
    /\ fout' = [fout EXCEPT !.read = [ref |-> Head(fout.queue).ref,
                                      was |-> Head(fout.queue).was],
                            !.queue = Tail(@)]
    /\ UNCHANGED <<fpc, fin, histVars, uiVars, runVars>>

\* ProgressAPIHandler: GetProgress(runID), then the encoder marshals the object
SnapPoll ==
    /\ fpc \notin {"idle"} /\ fout.read # fout.store
    /\ fout' = [fout EXCEPT !.read = fout.store]
    /\ UNCHANGED <<fpc, fin, histVars, uiVars, runVars>>

NextSnap ==
    \/ \E impl \in Impls : SnapStart(impl)
    \/ \E d \in StatsSteps : SnapTick(d)
    \/ \E status \in {"completed", "error"}, d \in StatsSteps : SnapStop(status, d)
    \/ \E d \in StatsSteps : SnapCounters(d)
    \/ SnapPublish
    \/ SnapRecv
    \/ SnapPoll

SpecSnap == InitSnap /\ [][NextSnap]_vars

(***************************************************************************)
(* The protocol adapter (RunKafkaTest) around the periodic runner.         *)
(***************************************************************************)
\* calls a worker makes at most when no exact count is asked for
MaxCalls == 1

\* NewPeriodicRunner: NumThreads is capped by Exactly
Normalized(o) ==
    [o EXCEPT !.NumThreads = IF o.Exactly > 0 /\ o.Exactly < o.NumThreads
                             THEN o.Exactly ELSE o.NumThreads]

\* RunKafkaTest up to the deferred Abort: the connection is validated (ok),
\* then the runner is made from the options
KafkaStart(o, ok) ==
    /\ rpc = "idle"
    /\ IF ok
       THEN /\ ropt' = Normalized(o)
            /\ rpc' = "clients"
       ELSE /\ rpc' = "failed"
            /\ UNCHANGED ropt
    /\ UNCHANGED <<ci, warm, wpc, counter, calls, after, stopped, mu,
                   stopCloses, apc, abortFailed, rclock, cleanEnd,
                   acctVars, histVars, funVars, uiVars>>

\* a failed client creation that leaves the clients made so far open
CleanUpNone(i) == 0

\* the clean-up of a failed client creation: the clients of the threads
\* 0 .. i-1 are closed; the number of clients closed
CleanUp(i) == i

\* RunKafkaTest: the client of thread ci is created (ok), with a warm-up
\* Produce unless an exact count is asked for; when the creation fails the
\* clients made so far are closed before the error is returned
KafkaNewClient(ok) ==
    /\ rpc = "clients" /\ ci < ropt.NumThreads
    /\ IF ok
       THEN /\ ci' = ci + 1
            /\ warm' = IF ropt.Exactly <= 0 THEN warm + 1 ELSE warm
            /\ UNCHANGED <<rpc, closedClients>>
       ELSE /\ rpc' = "failing"
            /\ closedClients' = CleanUp(ci)
            /\ UNCHANGED <<ci, warm>>
    /\ UNCHANGED <<ropt, wpc, counter, calls, after, stopped, mu, stopCloses,
                   apc, abortFailed, rclock, cleanEnd, retCodes, whist, live,
                   kafkaTotal, finalStats, histVars, funVars, uiVars>>

\* RunKafkaTest: total.RunnerResults = r.Run() starts the workers
KafkaRun ==
    /\ rpc = "clients" /\ ci = ropt.NumThreads
    /\ rpc' = "run"
    /\ wpc' = [k \in Workers |-> IF k <= ropt.NumThreads THEN "check" ELSE "off"]
    /\ live' = [NoLive EXCEPT !.registered = TRUE]
    /\ UNCHANGED <<ropt, ci, warm, counter, calls, after, stopped, mu,
                   stopCloses, apc, abortFailed, rclock, cleanEnd,
                   retCodes, whist, kafkaTotal, finalStats, closedClients, histVars, funVars, uiVars>>

\* ShouldStop without the test of the stop channel
ShouldStopIgnoresAbort(o, closes, cnt, clock) ==
    \/ o.Exactly > 0 /\ cnt >= o.Exactly
    \/ o.Exactly <= 0 /\ o.Duration >= 0 /\ clock >= o.Duration

\* the termination conditions a worker evaluates in each iteration
ShouldStop(o, closes, cnt, clock) ==
    \/ closes > 0
    \/ o.Exactly > 0 /\ cnt >= o.Exactly
    \/ o.Exactly <= 0 /\ o.Duration >= 0 /\ clock >= o.Duration

WorkerCheck(k) ==
    /\ wpc[k] = "check"
    /\ IF ShouldStop(ropt, stopCloses, counter, rclock)
       THEN wpc' = [wpc EXCEPT ![k] = "done"]
       ELSE /\ ropt.Exactly > 0 \/ calls[k] < MaxCalls
            /\ wpc' = [wpc EXCEPT ![k] = "reserve"]
    /\ UNCHANGED <<ropt, rpc, ci, warm, counter, calls, after, stopped,
                   mu, stopCloses, apc, abortFailed, rclock, cleanEnd,
                   acctVars, histVars, funVars, uiVars>>

\* Reserve without the test against the exact count
ReserveUnchecked(cnt, exactly) == [ok |-> TRUE, counter |-> cnt + 1]

\* the shared atomic counter: a slot is reserved unless all are taken
Reserve(cnt, exactly) ==
    IF exactly <= 0 THEN [ok |-> TRUE, counter |-> cnt]
    ELSE IF cnt < exactly THEN [ok |-> TRUE, counter |-> cnt + 1]
    ELSE [ok |-> FALSE, counter |-> cnt]

WorkerReserve(k) ==
    /\ wpc[k] = "reserve"
    /\ LET r == Reserve(counter, ropt.Exactly)
       IN  /\ counter' = r.counter
           /\ wpc' = [wpc EXCEPT ![k] = IF r.ok THEN "sleep" ELSE "done"]
    /\ UNCHANGED <<ropt, rpc, ci, warm, calls, after, stopped, mu,
                   stopCloses, apc, abortFailed, rclock, cleanEnd,
                   acctVars, histVars, funVars, uiVars>>

\* the worker reaches its target time (at once when not paced) and invokes Run
WorkerWake(k) ==
    /\ wpc[k] = "sleep"
    /\ ~ropt.paced \/ stopCloses = 0
    /\ wpc' = [wpc EXCEPT ![k] = "call"]
    /\ calls' = [calls EXCEPT ![k] = @ + 1]
    /\ after' = [after EXCEPT ![k] = IF stopCloses > 0 THEN @ + 1 ELSE @]
    /\ UNCHANGED <<ropt, rpc, ci, warm, counter, stopped, mu, stopCloses,
                   apc, abortFailed, rclock, cleanEnd,
                   acctVars, histVars, funVars, uiVars>>

\* the sleep until the target time is interrupted by the stop channel
WorkerSleepAborted(k) ==
    /\ wpc[k] = "sleep"
    /\ ropt.paced /\ stopCloses > 0
    /\ wpc' = [wpc EXCEPT ![k] = "done"]
    /\ UNCHANGED <<ropt, rpc, ci, warm, counter, calls, after, stopped,
                   mu, stopCloses, apc, abortFailed, rclock, cleanEnd,
                   acctVars, histVars, funVars, uiVars>>

\* RunnerResults.Run without the count of the failures
RunCountsOKOnly(codes, err) ==
    IF err # "nil"
    THEN [RetCodes |-> codes, ok |-> FALSE, statusKey |-> err]
    ELSE [RetCodes |-> [codes EXCEPT ![KafkaStatusOK] = @ + 1],
          ok |-> TRUE, statusKey |-> KafkaStatusOK]

\* RunnerResults.Run: err is what Produce returned ("nil", or the error string)
Run(codes, err) ==
    IF err # "nil"
    THEN [RetCodes |-> [codes EXCEPT ![err] = @ + 1], ok |-> FALSE, statusKey |-> err]
    ELSE [RetCodes |-> [codes EXCEPT ![KafkaStatusOK] = @ + 1],
          ok |-> TRUE, statusKey |-> KafkaStatusOK]

\* the Run call of the worker returns
WorkerReturn(k, err) ==
    /\ wpc[k] = "call"
    /\ LET r == Run(retCodes[k], err)
       IN  /\ retCodes' = [retCodes EXCEPT ![k] = r.RetCodes]
           /\ wpc' = [wpc EXCEPT ![k] = IF r.ok THEN "record" ELSE "recordErr"]
    /\ UNCHANGED <<ropt, rpc, ci, warm, counter, calls, after, stopped,
                   mu, stopCloses, apc, abortFailed, rclock, cleanEnd,
                   whist, live, kafkaTotal, finalStats, closedClients, histVars, funVars, uiVars>>

\* the accumulators of the LiveStats handle, with the failed calls left out
CountCallSuccessOnly(l, ok) ==
    IF ok THEN [l EXCEPT !.total = @ + 1, !.success = @ + 1] ELSE l

\* the accumulators of the LiveStats handle after a call that returned ok
CountCall(l, ok) ==
    IF ok THEN [l EXCEPT !.total = @ + 1, !.success = @ + 1]
    ELSE [l EXCEPT !.total = @ + 1, !.errors = @ + 1]

\* the worker records the latency of the call into its histogram and counts the
\* call as a success or as an error; then it goes on with the next iteration
WorkerRecord(k) ==
    /\ wpc[k] \in {"record", "recordErr"}
    /\ whist' = [whist EXCEPT ![k] = @ + 1]
    /\ live' = CountCall(live, wpc[k] = "record")
    /\ wpc' = [wpc EXCEPT ![k] = "check"]
    /\ UNCHANGED <<ropt, rpc, ci, warm, counter, calls, after, stopped,
                   mu, stopCloses, apc, abortFailed, rclock, cleanEnd,
                   retCodes, kafkaTotal, finalStats, closedClients, histVars, funVars, uiVars>>

\* the Count of the histogram that the runner merges from those of the workers
\* 1 .. n
RECURSIVE MergedCount(_, _)
MergedCount(w, n) == IF n = 0 THEN 0 ELSE w[n] + MergedCount(w, n - 1)

\* r.Run() returns once every worker has stopped: its result holds the merged
\* histogram
RunnerDone ==
    /\ rpc = "run"
    /\ \A k \in Workers : wpc[k] \in {"done", "off"}
    /\ rpc' = "aggregate"
    /\ cleanEnd' = (stopCloses = 0)
    /\ kafkaTotal' = [kafkaTotal EXCEPT !.Count = MergedCount(whist, ropt.NumThreads)]
    /\ UNCHANGED <<ropt, ci, warm, wpc, counter, calls, after, stopped,
                   mu, stopCloses, apc, abortFailed, rclock,
                   retCodes, whist, live, finalStats, closedClients, histVars, funVars, uiVars>>

\* RunKafkaTest, the aggregation loop over the threads 0 .. numThreads-1 (here
\* 1 .. n): total.RetCodes[k] += kafkastate[i].RetCodes[k] for every key k of
\* the map of the thread
RECURSIVE Aggregate(_, _, _)
Aggregate(codes, state, n) ==
    IF n = 0 THEN codes
    ELSE LET sofar == Aggregate(codes, state, n - 1)
         IN  [key \in Keys |-> sofar[key] + state[n][key]]

\* RunKafkaTest returns (the aggregated results, or the error of the client
\* creation): the deferred r.Options().Abort() is called
KafkaReturn ==
    /\ rpc \in {"aggregate", "failing"}
    /\ rpc' = IF rpc = "aggregate" THEN "returned" ELSE "failed"
    /\ kafkaTotal' = IF rpc = "aggregate"
                THEN [kafkaTotal EXCEPT !.RetCodes = Aggregate(@, retCodes, ropt.NumThreads)]
                ELSE kafkaTotal
    /\ apc' = [apc EXCEPT !["defer"] = "called"]
    /\ UNCHANGED <<ropt, ci, warm, wpc, counter, calls, after, stopped,
                   mu, stopCloses, abortFailed, rclock, cleanEnd,
                   retCodes, whist, live, finalStats, closedClients, histVars, funVars, uiVars>>

\* GetSnapshot of the handle found by GetLiveStatsByRunID, zeroes for nil
GetSnapshot(l) ==
    IF l.registered THEN [total |-> l.total, success |-> l.success, errors |-> l.errors]
    ELSE [total |-> 0, success |-> 0, errors |-> 0]

\* the stop function of startRunMonitor, called by the Handler once the run has
\* returned: the request counts of the final progress are read from LiveStats
StopMonitor ==
    /\ rpc \in {"returned", "failed"} /\ ~finalStats.published
    /\ LET g == GetSnapshot(live)
       IN  finalStats' = [published |-> TRUE, RequestsTotal |-> g.total,
                          RequestsSuccess |-> g.success, RequestsError |-> g.errors]
    /\ UNCHANGED <<ropt, rpc, ci, warm, wpc, counter, calls, after, stopped,
                   mu, stopCloses, apc, abortFailed, rclock, cleanEnd,
                   retCodes, whist, live, kafkaTotal, closedClients, histVars, funVars, uiVars>>

\* Abort() is called from elsewhere on the Aborter of the runner
AbortCall(a) ==
    /\ a # "defer" /\ apc[a] = "idle"
    /\ ropt # NoOptions
    /\ apc' = [apc EXCEPT ![a] = "called"]
    /\ UNCHANGED <<ropt, rpc, ci, warm, wpc, counter, calls, after,
                   stopped, mu, stopCloses, abortFailed, rclock, cleanEnd,
                   acctVars, histVars, funVars, uiVars>>

\* Abort(): the mutex is taken
AbortLock(a) ==
    /\ apc[a] = "called" /\ mu = "free"
    /\ mu' = a
    /\ apc' = [apc EXCEPT ![a] = "locked"]
    /\ UNCHANGED <<ropt, rpc, ci, warm, wpc, counter, calls, after,
                   stopped, stopCloses, abortFailed, rclock, cleanEnd,
                   acctVars, histVars, funVars, uiVars>>

\* Abort() without the stopped flag: the channel is closed by every call
AbortWithoutFlag(st, closes) ==
    [stopped |-> TRUE, closes |-> closes + 1, failed |-> closes > 0]

\* Abort() under the mutex: the stop channel is closed unless stopped is set.
\* failed: a closed channel was closed again
AbortUnderLock(st, closes) ==
    IF st THEN [stopped |-> TRUE, closes |-> closes, failed |-> FALSE]
    ELSE [stopped |-> TRUE, closes |-> closes + 1, failed |-> closes > 0]

AbortBody(a) ==
    /\ apc[a] = "locked" /\ mu = a
    /\ LET r == AbortUnderLock(stopped, stopCloses)
       IN  /\ stopped' = r.stopped
           /\ stopCloses' = r.closes
           /\ abortFailed' = (abortFailed \/ r.failed)
    /\ mu' = "free"
    /\ apc' = [apc EXCEPT ![a] = "done"]
    /\ UNCHANGED <<ropt, rpc, ci, warm, wpc, counter, calls, after,
                   rclock, cleanEnd,
                   acctVars, histVars, funVars, uiVars>>

\* time passes during the run
RunnerClock ==
    /\ rpc = "run" /\ rclock < MaxClock
    /\ rclock' = rclock + 1
    /\ UNCHANGED <<ropt, rpc, ci, warm, wpc, counter, calls, after,
                   stopped, mu, stopCloses, apc, abortFailed, cleanEnd,
                   acctVars, histVars, funVars, uiVars>>

InitRunner ==
    /\ ropt = NoOptions /\ rpc = "idle" /\ ci = 0 /\ warm = 0
    /\ wpc = [k \in Workers |-> "off"] /\ counter = 0 /\ calls = [k \in Workers |-> 0]
    /\ after = [k \in Workers |-> 0] /\ stopped = FALSE /\ mu = "free" /\ stopCloses = 0
    /\ apc = [a \in Aborters |-> "idle"] /\ abortFailed = FALSE /\ rclock = 0
    /\ cleanEnd = FALSE
    /\ retCodes = [k \in Workers |-> NoCodes] /\ whist = [k \in Workers |-> 0]
    /\ live = NoLive /\ kafkaTotal = NoTotal /\ finalStats = NoStats /\ closedClients = 0
    /\ plan = NoPlan /\ hpc = "idle" /\ mpc = "none" /\ stopCalls = 0 /\ runErr = "none"
    /\ now = 0 /\ nticks = 0 /\ store = NoSnap /\ pub = PubOff /\ reg = RegAbsent
    /\ lock = 0 /\ rem = NoRem /\ chans = ChansAtStart /\ spc = [c \in Clients |-> "idle"]
    /\ last = [c \in Clients |-> NoSnap] /\ crashed = FALSE
    /\ offers = [c \in Clients |-> NoOffer] /\ pubRegs = {} /\ terminal = NoSnap
    /\ cfg = NoConfig /\ mon = "idle" /\ elapsed = 0 /\ progress = NoProgress
    /\ hists = HistsAtStart(<<0, 1>>) /\ ops = 0 /\ panicked = FALSE /\ wide = WideEmpty
    /\ fpc = "idle" /\ fin = <<>> /\ fout = <<>>

WorkerStep(k) ==
    \/ WorkerCheck(k)
    \/ WorkerReserve(k)
    \/ WorkerWake(k)
    \/ WorkerSleepAborted(k)
    \/ WorkerReturn(k, "nil")
    \/ WorkerRecord(k)

AbortStep(a) == AbortLock(a) \/ AbortBody(a)

NextRunner ==
    \/ \E o \in OptionsAsked, ok \in BOOLEAN : KafkaStart(o, ok)
    \/ \E ok \in BOOLEAN : KafkaNewClient(ok)
    \/ KafkaRun
    \/ \E k \in Workers : WorkerStep(k)
    \/ RunnerDone
    \/ KafkaReturn
    \/ StopMonitor
    \/ \E a \in Aborters : AbortCall(a)
    \/ \E a \in Aborters : AbortStep(a)
    \/ RunnerClock

SpecRunner == InitRunner /\ [][NextRunner]_vars

\* the same with calls that fail
NextResults ==
    \/ NextRunner
    \/ \E k \in Workers, err \in ErrStrings : WorkerReturn(k, err)

SpecResults == InitRunner /\ [][NextResults]_vars

\* every worker, the runner and every Abort() call keep running
FairSpecRunner ==
    /\ SpecRunner
    /\ \A k \in Workers : WF_vars(WorkerStep(k))
    /\ \A a \in Aborters : WF_vars(AbortStep(a))
    /\ WF_vars(RunnerDone)
    /\ WF_vars(KafkaReturn)

(***************************************************************************)
(* Claims about the histogram.                                             *)
(***************************************************************************)
RECURSIVE SumCellsTo(_, _)
SumCellsTo(Hdata, i) == IF i < 0 THEN 0 ELSE Hdata[i] + SumCellsTo(Hdata, i - 1)

\* the sum of all bucket counts of h
SumCells(h) == SumCellsTo(h.Hdata, numBuckets - 1)

RECURSIVE SumDataCounts(_, _)
SumDataCounts(data, i) == IF i = 0 THEN 0 ELSE data[i].Count + SumDataCounts(data, i - 1)

\* the sum of Bucket.Count over Export().Data
SumExport(h) == LET data == Export(h).Data IN SumDataCounts(data, Len(data))

HistTotalsOK(h) == SumCells(h) = h.Count /\ SumExport(h) = h.Count

\* the same for the wide histogram: its only cell holds its Count, and Export
\* gives that one bucket
WideTotalsOK ==
    /\ wide.cell >= 0
    /\ wide.cell \div Block = wide.CountHi
    /\ wide.cell % Block = wide.CountLo

\* C8: after any sequence of Record, RecordN (n >= 0), Transfer, Merge, Clone and
\* Reset, the bucket counts of every histogram add up to its Count, and so do the
\* counts of its exported buckets.
C8_TotalsAlways ==
    /\ \A s \in Slots : HistTotalsOK(hists[s])
    /\ WideTotalsOK

\* C9: the exported buckets of a non-empty histogram start at Min, end
\* at Max and each bucket ends where the next one starts.
C9_ExportContiguous ==
    \A s \in Slots :
        LET data == Export(hists[s]).Data
        IN  data # <<>> =>
                /\ data[1].Start = hists[s].Min
                /\ data[Len(data)].End = hists[s].Max
                /\ \A i \in 1 .. (Len(data) - 1) : data[i].End = data[i + 1].Start

\* s <= k for the scaled value s = (v - Offset)/Divider of the input
ScaledLeq(in, k) ==
    LET sn == in.v.num - in.Offset * in.v.den
        sd == in.v.den * in.Divider
    IN  sn < k * sd \/ (sn = k * sd /\ in.v.fine = 0)

\* the bucket the specification gives for the input
ClaimedIdx(in) ==
    IF ScaledLeq(in, BV(0)) THEN 0
    ELSE IF ~ScaledLeq(in, BV(numValues - 1)) THEN numBuckets - 1
    ELSE CHOOSE i \in 1 .. (numValues - 1) :
             ~ScaledLeq(in, BV(i - 1)) /\ ScaledLeq(in, BV(i))

\* C10: Record(v) increments exactly one bucket, bucket 0 if s <= V[0],
\* the overflow bucket if s > V[last], otherwise the bucket i with
\* V[i-1] < s <= V[i].
C10_RecordBucket ==
    fpc = "done" =>
        /\ ~fout.panic
        /\ fout.Hdata = [i \in 0 .. (numBuckets - 1) |->
                            IF i = ClaimedIdx(fin) THEN 1 ELSE 0]

NumEq(x, y) == NumLeq(x, y) /\ NumLeq(y, x)

\* the exported histogram of the percentile computation
PctExported == ExportFine(fin)

\* the percentiles were computed on a non-empty exported histogram
PctDone == fpc = "done" /\ fin.h.Count > 0

\* C11: on an exported non-empty histogram CalcPercentile never decreases when
\* the percentile grows.
C11_PercentileMonotone ==
    PctDone => \A p1 \in Pcts, p2 \in Pcts : p1 < p2 => NumLeq(fout[p1], fout[p2])

\* the first exported bucket whose cumulative Percent is >= p
FirstBucketAt(e, p) ==
    CHOOSE i \in 1 .. Len(e.Data) :
        /\ p * e.Count <= e.Data[i].Percent.n
        /\ \A j \in 1 .. (i - 1) : p * e.Count > e.Data[j].Percent.n

\* the interpolation the percentile p is claimed to be
ClaimedPercentile(e, p) ==
    LET i == FirstBucketAt(e, p)
        ppn == IF i = 1 THEN 100 ELSE e.Data[i - 1].Percent.n
    IN  Interpolate(e.Data[i].Start, e.Data[i].End,
                    p * e.Count - ppn, e.Data[i].Percent.n - ppn)

\* C12: with Count > 0, CalcPercentile(p) is Min for p <= 100/Count, Max for
\* p >= 100 and otherwise the interpolation in the first exported bucket whose
\* Percent is >= p; no division by zero happens and the result is in [Min, Max].
C12_PercentileValue ==
    PctDone =>
        \A p \in Pcts :
            /\ p >= 100 => NumEq(fout[p], PctExported.Max)
            /\ p * PctExported.Count <= 100 => NumEq(fout[p], PctExported.Min)
            /\ (p < 100 /\ p * PctExported.Count > 100)
                   => fout[p] = ClaimedPercentile(PctExported, p)
            /\ ~fout[p].div0
            /\ NumLeq(PctExported.Min, fout[p]) /\ NumLeq(fout[p], PctExported.Max)

TransferPost(d, s, d2, s2) ==
    /\ d2.Count = d.Count + s.Count
    /\ d2.Sum = d.Sum + s.Sum
    /\ (d.Count > 0 /\ s.Count > 0) =>
           /\ d2.Min = IF s.Min < d.Min THEN s.Min ELSE d.Min
           /\ d2.Max = IF s.Max > d.Max THEN s.Max ELSE d.Max
    /\ (d.Count = 0 /\ s.Count > 0) => (d2.Min = s.Min /\ d2.Max = s.Max)
    /\ (d.Offset = s.Offset /\ d.Divider = s.Divider) =>
           \A i \in 0 .. (numBuckets - 1) : d2.Hdata[i] = d.Hdata[i] + s.Hdata[i]
    /\ s2.Count = 0 /\ \A i \in 0 .. (numBuckets - 1) : s2.Hdata[i] = 0
    /\ s2.Offset = s.Offset /\ s2.Divider = s.Divider
    /\ s.Count = 0 => d2 = d

\* every transfer between two of the histograms a, b, t does what it is to do
SmallTransfersMove ==
    \A d \in Slots, s \in Slots :
        DoTransfer(d, s) => TransferPost(hists[d], hists[s], hists'[d], hists'[s])

\* C15: dst.Transfer(src), src not dst, moves the data: dst.Count and dst.Sum
\* become the sums, dst.Min and dst.Max the minimum and maximum over the data of
\* both, every bucket of dst the sum of the two buckets (equal scales); src ends
\* empty with its Offset and Divider kept; an empty src leaves dst unchanged.
C15_TransferMoves ==
    [][/\ SmallTransfersMove
       /\ \A n \in WideReps : TransferWide(n) => (wide'.cell >= wide.cell /\ wide'.cell - n = wide.cell)]_vars

\* Count, Min, Max and the bucket counts of x and y are equal
SameCounts(x, y) ==
    /\ x.h.Count = y.h.Count
    /\ x.h.Min = y.h.Min
    /\ x.h.Max = y.h.Max
    /\ x.h.Hdata = y.h.Hdata

\* the float64 Sum of x and y are equal
SameSum(x, y) == x.h.Sum = y.h.Sum /\ x.sumLo = y.sumLo

\* no addition of two Sum rounded in either way of merging A, B and C
MergesExact ==
    /\ ExactAdd(fin["A"], fin["B"])
    /\ ExactAdd(MergeF(fin["A"], fin["B"]), fin["C"])
    /\ ExactAdd(fin["B"], fin["C"])
    /\ ExactAdd(fin["A"], MergeF(fin["B"], fin["C"]))

\* C13: for A, B, C of equal offset and divider, Merge(Merge(A, B), C) and
\* Merge(A, Merge(B, C)) have equal Count, Min, Max, Sum and bucket counts.
C13_MergeAssociative ==
    fpc = "done" => /\ SameCounts(fout.left, fout.right)
                    /\ SameSum(fout.left, fout.right)

\* C13 as it holds: Count, Min, Max and the bucket counts are equal, and Sum is
\* equal whenever no addition of two Sum had to round.
C13_MergeAssociativeExact ==
    fpc = "done" => /\ SameCounts(fout.left, fout.right)
                    /\ fout.left.h.Sum = fout.right.h.Sum
                    /\ MergesExact => SameSum(fout.left, fout.right)

\* C13 witness: three non-empty histograms were merged both ways without
\* rounding, with a Sum that is not on the grid
C13_Witness ==
    /\ fpc = "done"
    /\ \A n \in MrgNames : fin[n].h.Count > 0
    /\ MergesExact
    /\ fout.left.sumLo > 0

\* the total after the first two workers of the order o
TotalOfTwo(o) ==
    TransferAll(NewHistogramF(fin["A"].h.Offset, fin["A"].h.Divider),
                fin, SubSeq(o, 1, 2), 1)[1]

\* no addition of two Sum rounded in any order of the workers
TransfersExact ==
    \A o \in MrgOrders : /\ ExactAdd(fin[o[1]], fin[o[2]])
                         /\ ExactAdd(TotalOfTwo(o), fin[o[3]])

\* C14: the transfer of the worker histograms into the total gives the same
\* Count, Min, Max, Sum and bucket counts in every order of the workers, empty
\* worker histograms included.
C14_TransferAnyOrder ==
    fpc = "done" =>
        \A o1 \in MrgOrders, o2 \in MrgOrders :
            /\ SameCounts(fout.totals[o1], fout.totals[o2])
            /\ SameSum(fout.totals[o1], fout.totals[o2])

\* C14 as it holds: Count, Min, Max and the bucket counts do not depend on the
\* order, and neither does Sum whenever no addition of two Sum had to round.
C14_TransferAnyOrderExact ==
    fpc = "done" =>
        \A o1 \in MrgOrders, o2 \in MrgOrders :
            /\ SameCounts(fout.totals[o1], fout.totals[o2])
            /\ fout.totals[o1].h.Sum = fout.totals[o2].h.Sum
            /\ TransfersExact => SameSum(fout.totals[o1], fout.totals[o2])

\* C14 witness: two workers with different data and an empty one were
\* transferred in every order
C14_Witness ==
    /\ fpc = "done"
    /\ fin["A"].h.Count > 0 /\ fin["B"].h.Count > 1 /\ fin["C"].h.Count = 0
    /\ fin["A"].h.Min # fin["B"].h.Min
    /\ fout.totals[<<"A", "B", "C">>].h.Count = fin["A"].h.Count + fin["B"].h.Count

(***************************************************************************)
(* Claims about the run monitor and the progress stream.                   *)
(***************************************************************************)
\* the terminal status for what rapi.Run returned
RunStatus == IF runErr = "err" THEN "error" ELSE "completed"

StopOnceAndStatus ==
    /\ stopCalls <= 1
    /\ runErr # "none" => stopCalls = 1
    /\ terminal # NoSnap => terminal.status = RunStatus

\* C2: once the run function has returned, the stop function of the monitor is
\* called exactly once and publishes a terminal snapshot, "error" if the run
\* returned an error and "completed" otherwise; every run that began executing
\* eventually has a terminal snapshot published.
C2_TerminalPublished ==
    /\ []StopOnceAndStatus
    /\ (runErr # "none") ~> (terminal # NoSnap)
    /\ (hpc = "running") ~> (terminal # NoSnap)

\* the run has ended and nothing more will reach observer c, which is still connected
Drained(c) ==
    /\ hpc \in {"done", "evicted"}
    /\ spc[c] = "loop"
    /\ chans[c].buf = <<>>

\* C3: for an observer that stays connected until the run ends, the last
\* snapshot delivered is the terminal one, however many snapshots were published
\* before it and however slowly the observer drains its buffer.
C3_LastDeliveredIsTerminal ==
    \A c \in Clients : (Drained(c) /\ last[c] # NoSnap) => IsTerminal(last[c])

\* C4: the snapshots sent to an observer (the current state on connect, then
\* those read from its channel) have non-decreasing elapsedSeconds.
C4_ElapsedNonDecreasing ==
    [][\A c \in Clients :
          (last[c] # NoSnap /\ last'[c] # last[c])
              => last'[c].elapsed >= last[c].elapsed]_vars

\* observer c was registered when the latest notifySubscribers began and has
\* not left since
StillSubscribed(c) == c \in pubRegs /\ spc[c] \in {"added", "loop"}

\* C5: a publish never blocks on a subscriber; a snapshot is dropped for a
\* subscriber only when its buffer of 10 is full, and every other subscriber
\* with free space still receives it.
C5_DropOnlyWhenFull ==
    /\ (pub.phase = "send" /\ ~crashed) => ENABLED PubSend
    /\ \A c \in Clients :
          /\ offers[c].n > offers[c].q => offers[c].full
          /\ (pub.phase = "off" /\ StillSubscribed(c)) => offers[c].n >= 1

(***************************************************************************)
(* Claims about the periodic runner and the Aborter.                       *)
(***************************************************************************)
RECURSIVE SumCalls(_)
SumCalls(ws) ==
    IF ws = {} THEN 0
    ELSE LET k == CHOOSE w \in ws : TRUE IN calls[k] + SumCalls(ws \ {k})

\* the Run invocations of all workers
TotalCalls == SumCalls(Workers)

\* C1: with exactly = n > 0 and concurrent workers, the Run invocations of all
\* workers never exceed n, and they are n when the run completes without abort.
C1_ExactlyCalls ==
    ropt.Exactly > 0 =>
        /\ TotalCalls <= ropt.Exactly
        /\ (rpc \in {"aggregate", "returned"} /\ cleanEnd) => TotalCalls = ropt.Exactly

\* C1 witness: a run of several calls shared by both workers completed unaborted
C1_Witness ==
    /\ rpc = "returned" /\ cleanEnd
    /\ ropt.Exactly >= 2
    /\ \A k \in Workers : calls[k] >= 1

\* C6: whatever Abort() calls are made, the deferred one after the run
\* included, the stop channel is closed exactly once and no call fails.
C6_StopClosedOnce ==
    /\ stopCloses <= 1
    /\ ~abortFailed
    /\ \A a \in Aborters : apc[a] = "done" => (stopped /\ stopCloses = 1)

\* C6 witness: the run has returned and the deferred Abort() and both other
\* calls have completed
C6_Witness ==
    /\ rpc = "returned"
    /\ \A a \in Aborters : apc[a] = "done"

\* an Abort() has been called and the run is on
AbortedDuringRun == rpc = "run" /\ \E a \in Aborters : apc[a] # "idle"

\* C7: after Abort() during a run every worker begins at most the one call it
\* was about to make, and the run terminates and returns its results, also
\* when it has no duration and the exact count is not reached.
C7_AbortStopsRun ==
    /\ [](\A k \in Workers : after[k] <= 1)
    /\ AbortedDuringRun ~> (rpc = "returned")

\* C7 witness: a run with no duration was aborted before its exact count was
\* reached and has returned
C7_Witness ==
    /\ rpc = "returned" /\ ~cleanEnd
    /\ ropt.Duration < 0
    /\ ropt.Exactly = MaxExactly /\ TotalCalls < ropt.Exactly

RECURSIVE SumKeys(_, _)
SumKeys(codes, keys) ==
    IF keys = {} THEN 0
    ELSE LET key == CHOOSE x \in keys : TRUE IN codes[key] + SumKeys(codes, keys \ {key})

\* C17: every Run invocation, whether it returns ok or not, counts as one
\* completed call (one more in the latency histogram and in one of the success
\* and error counters) and does not stop the run: in the final snapshot
\* requestsTotal = requestsSuccess + requestsError = the Count of the histogram of
\* the results = the Run invocations made, which are all those asked for when
\* the run was not aborted.
C17_EveryCallCounts ==
    finalStats.published =>
        /\ finalStats.RequestsTotal = finalStats.RequestsSuccess + finalStats.RequestsError
        /\ finalStats.RequestsTotal = kafkaTotal.Count
        /\ finalStats.RequestsTotal = TotalCalls
        /\ finalStats.RequestsSuccess = kafkaTotal.RetCodes[KafkaStatusOK]
        /\ (ropt.Exactly > 0 /\ cleanEnd) => finalStats.RequestsTotal = ropt.Exactly

\* C17 witness: the final snapshot of a run in which calls of both workers
\* succeeded and failed
C17_Witness ==
    /\ finalStats.published
    /\ finalStats.RequestsSuccess >= 1 /\ finalStats.RequestsError >= 1
    /\ \A k \in Workers : whist[k] >= 1

\* the Run call of worker k that returned in this step incremented one key, OK
\* if and only if it returned ok = true and the error string otherwise
OneKeyMore(k, err) ==
    /\ \E key \in Keys :
          /\ retCodes' = [retCodes EXCEPT ![k][key] = @ + 1]
          /\ key = KafkaStatusOK <=> wpc'[k] = "record"
          /\ key # KafkaStatusOK => key = err
    /\ wpc'[k] \in {"record", "recordErr"}

\* the map of the aggregated results holds for each key the sum over the workers
KeyWiseSum ==
    \A key \in Keys :
        kafkaTotal.RetCodes[key] = retCodes[1][key] + retCodes[2][key]

\* C18: each call of Run increments exactly one key of the result-code map of
\* its worker, "OK" if and only if it returns ok = true and the error string
\* otherwise; the aggregated map holds for each key the sum over the workers,
\* and its values add up to the number of calls made in the run.
C18_ResultCodes ==
    /\ [](rpc = "returned" =>
            /\ KeyWiseSum
            /\ SumKeys(kafkaTotal.RetCodes, Keys) = TotalCalls)
    /\ [][\A k \in Workers, err \in {"nil"} \cup ErrStrings :
            WorkerReturn(k, err) => OneKeyMore(k, err)]_vars

\* C18 witness: the aggregated map of a run in which calls of both workers
\* succeeded, or calls of both workers failed with the same error
C18_Witness ==
    /\ rpc = "returned"
    /\ \E key \in Keys : \A k \in Workers : retCodes[k][key] >= 1

(***************************************************************************)
(* Claims about the progress percentage.                                   *)
(***************************************************************************)
\* C19: every snapshot published with status "running" has progressPercent in
\* [0, 99], for every elapsed time and every expectedSeconds.
C19_RunningPercent ==
    progress.Status = "running" =>
        /\ progress.ProgressPercent.num >= 0
        /\ PercentLeq(progress.ProgressPercent, 99)

\* C20: the final snapshot published when a monitor is stopped has status
\* completed or error and progressPercent = 100, for every expectedSeconds, 0
\* and negative values included.
C20_FinalPercent ==
    mon = "stopped" =>
        /\ progress.Status \in {"completed", "error"}
        /\ progress.ProgressPercent = Percent(100, 1)

\* C21: every terminal snapshot published with status "error" has a non-empty
\* lastError, also that of a run that failed before the paced loop.
C21_ErrorHasLastError ==
    (mon = "stopped" /\ progress.Status = "error") => progress.LastError # ""

\* C22: from the terminal publish of a run until its delayed eviction a poll for
\* its runID returns the terminal snapshot; after the eviction, and while the
\* runID has no entry, the poll returns the not_found sentinel.
C22_PollAfterTerminal ==
    /\ (terminal # NoSnap /\ hpc # "evicted") =>
            /\ GetProgress(store) = terminal
            /\ ProgressAPIHandler(store) = terminal
    /\ hpc \in {"idle", "evicted"} => ProgressAPIHandler(store) = NotFound

\* C22 witness: the run has been evicted after its terminal snapshot was
\* published and delivered to an observer
C22_Witness ==
    /\ hpc = "evicted" /\ IsTerminal(terminal)
    /\ \E c \in Clients : last[c] = terminal

\* C23: an observer that the SSE transport has sent a snapshot with status
\* completed or error, read from its stream or sent as the current state on
\* connect, has its stream closed and its subscription removed by the transport.
C23_TerminalClosesStream ==
    \A c \in Clients :
        (IsTerminal(last[c]) /\ ~crashed) ~> (spc[c] = "gone" \/ crashed)

(***************************************************************************)
(* Claims about the subscriber registry.                                   *)
(***************************************************************************)
\* the channels in the slice of run r, in order
Registered(r) == [k \in 1 .. fin.clients[r].len |-> fin.clients[r].arr[k]]

\* the channels subscribed to run r and not unsubscribed
Remaining(r) == {ch \in 1 .. fin.made : fin.run[ch] = r /\ ch \notin fin.left}

\* C24: after any sequence of subscribe and unsubscribe operations the registry
\* of each runID holds exactly the streams subscribed and not yet unsubscribed,
\* each once; every unsubscribed stream has been closed exactly once, however
\* often it was unsubscribed, and no other stream is closed; a runID with no
\* subscriber left has no entry.
C24_RegistryExact ==
    /\ \A r \in RunIDs :
          /\ {Registered(r)[k] : k \in 1 .. Len(Registered(r))} = Remaining(r)
          /\ Len(Registered(r)) = Cardinality(Remaining(r))
          /\ Remaining(r) = {} => fin.clients[r] = RegAbsent
    /\ \A ch \in Chs : fin.closes[ch] = IF ch \in fin.left THEN 1 ELSE 0

\* C24 witness: after all the calls, two streams remain in the slice of a run
\* from which another stream was unsubscribed
C24_Witness ==
    /\ fin.calls = MaxRegOps
    /\ \E r \in RunIDs :
          /\ Cardinality(Remaining(r)) = 2
          /\ \E ch \in fin.left : fin.run[ch] = r

\* C25: a run request with a configuration error (a percentile that does not
\* parse or is out of range, an invalid duration, a zero resolution) is
\* rejected before any work: no run ID is allocated for it (NextRunID is not
\* called) and no progress entry is created.
C25_ConfigErrorRejected ==
    [][\A p \in PercForms, t \in DurForms, r \in ResForms :
          LET req == [p |-> p, t |-> t, r |-> r]
          IN  (Request(req) /\ ConfigError(req)) =>
                  /\ fout'.lastRunID = fout.lastRunID
                  /\ fout'.runs = fout.runs]_vars

\* RunKafkaTest returned an error of the connection validation: no runner was made
ValidationFailed == rpc = "failed" /\ ropt = NoOptions

\* RunKafkaTest is returning, or has returned, the error of a client creation
ClientCreationFailed == rpc \in {"failing", "failed"} /\ ropt # NoOptions

\* C26: when the connection validation fails, RunKafkaTest returns an error
\* without starting the runner and without producing any message; when the
\* creation of a per-thread client fails, it returns an error before the paced
\* loop (no worker runs, no call is made) and every client created before the
\* failing one has been closed.
C26_PreflightFailure ==
    /\ ValidationFailed =>
          /\ \A k \in Workers : wpc[k] = "off"
          /\ warm = 0 /\ TotalCalls = 0 /\ ci = 0
    /\ ClientCreationFailed =>
          /\ \A k \in Workers : wpc[k] = "off"
          /\ TotalCalls = 0
          /\ closedClients = ci

\* C26 witness: the creation of the second client failed and the error was returned
C26_Witness ==
    /\ rpc = "failed" /\ ropt # NoOptions
    /\ ci = 1 /\ closedClients = 1

\* C27: NewHistogram returns no histogram exactly when the divider is zero; for
\* every other divider it returns an empty histogram: Count 0, every bucket 0,
\* and the offset and the divider it was given.
C27_NewHistogram ==
    fpc = "made" =>
        /\ fout = NilHistogram <=> fin.Divider = 0
        /\ fin.Divider # 0 =>
              /\ fout.Count = 0
              /\ \A i \in 0 .. (numBuckets - 1) : fout.Hdata[i] = 0
              /\ fout.Offset = fin.Offset /\ fout.Divider = fin.Divider

\* C27 witness: NewHistogram was called with a zero divider and returned nil
C27_Witness == fpc = "made" /\ fin.Divider = 0 /\ fout = NilHistogram

\* what Merge(h1, h2) is to return: h1, h2 before and t, the new histogram
MergePost(h1, h2, t) ==
    /\ t.Offset = IF h2.Offset < h1.Offset THEN h2.Offset ELSE h1.Offset
    /\ t.Divider = IF h2.Divider > h1.Divider THEN h2.Divider ELSE h1.Divider
    /\ t.Count = h1.Count + h2.Count
    /\ (h1.Count > 0 /\ h2.Count > 0) =>
           /\ t.Min = IF h2.Min < h1.Min THEN h2.Min ELSE h1.Min
           /\ t.Max = IF h2.Max > h1.Max THEN h2.Max ELSE h1.Max
    /\ (h1.Count > 0 /\ h2.Count = 0) => (t.Min = h1.Min /\ t.Max = h1.Max)
    /\ (h1.Count = 0 /\ h2.Count > 0) => (t.Min = h2.Min /\ t.Max = h2.Max)
    /\ SumCells(t) = t.Count

\* every Merge of the histograms a and b returns what it is to return
SmallMergesExact == DoMerge => MergePost(hists["a"], hists["b"], hists'["t"])

\* C28: Merge(h1, h2) returns a new histogram with Offset = min(o1, o2) and
\* Divider = max(d1, d2), whose Count is h1.Count + h2.Count, whose Min and Max
\* are the minimum and the maximum over the data of both, and whose bucket
\* counts add up to that Count, also when the scales differ and the buckets of
\* a source are recorded again at their midpoints.
C28_MergeTotals ==
    [][/\ SmallMergesExact
       /\ \A n \in WideReps :
             MergeWide(n) => (wide'.cell >= 0 /\ wide'.cell \div Block = wide'.CountHi
                              /\ wide'.cell % Block = wide'.CountLo)]_vars

\* the name the claim gives: the first token cut at its first '{'
ClaimedName(tok) ==
    IF Index(tok, "{") >= 0 THEN SubSeq(tok, 1, Index(tok, "{")) ELSE tok

\* the lines the claim keeps
ClaimedKept(text) ==
    LET line == TrimSpace(text)
        parts == Fields(line)
    IN  /\ line # <<>> /\ ~HasPrefix(line, "#")
        /\ ParseFloat(parts[Len(parts)]).err = "nil"

\* the pairs the claim gives for a text
RECURSIVE ClaimedMetrics(_)
ClaimedMetrics(data) ==
    IF data = <<>> THEN <<>>
    ELSE LET parts == Fields(TrimSpace(Head(data)))
         IN  (IF ClaimedKept(Head(data))
              THEN << [Name |-> ClaimedName(parts[1]),
                       Value |-> ParseFloat(parts[Len(parts)]).val] >>
              ELSE <<>>) \o ClaimedMetrics(Tail(data))

\* C29: ParsePrometheusMetrics returns, in the order of the text, exactly one
\* (name, value) pair for every line that after trimming is not empty, does not
\* start with '#' and whose last token parses as a float, the name being the
\* first token cut at its first '{'; no returned name contains '{', and every
\* other line is dropped.
C29_ParsedMetrics ==
    fpc = "parsed" =>
        /\ fout = ClaimedMetrics(fin)
        /\ \A k \in 1 .. Len(fout) : Index(fout[k].Name, "{") = -1

\* C30: with noCatchUp a worker that is at least one interval behind its
\* target moves to the first slot whose target is after now and makes no call
\* for the slots it skipped (nor any call while that far behind); in every mode
\* the start times of the calls of one worker never decrease.
C30_NoCatchUp ==
    /\ [](/\ \A n \in 1 .. (Len(fout.calls) - 1) :
              fout.calls[n].start <= fout.calls[n + 1].start
          /\ fin.noCatchUp =>
                \A n \in 1 .. Len(fout.calls) :
                    /\ fout.calls[n].slot \notin fout.skipped
                    /\ fout.calls[n].start < fout.calls[n].target + PaceDt)
    /\ [][PaceSkip =>
             /\ Target(fin.k, fout'.i) > fout.now
             /\ \A j \in fout.i .. (fout'.i - 1) : Target(fin.k, j) <= fout.now
             /\ fout'.calls = fout.calls]_vars

\* C30 witness: with noCatchUp the worker skipped two slots or more after a
\* long call and then made the call of a later slot
C30_Witness ==
    /\ fpc = "compute"
    /\ fin.noCatchUp /\ Cardinality(fout.skipped) >= 2
    /\ Len(fout.calls) >= 2
    /\ \A sl \in fout.skipped : fout.calls[Len(fout.calls)].slot > sl

\* the requests of the metrics m are all counted
RequestsAddUp(m) ==
    m # NoMetrics =>
        m.ProduceRequestsTotal = m.ProduceRequestsSuccess + m.ProduceRequestsError

\* C31: the metrics of a Kafka client count every produce request: after any
\* sequence of Produce calls ProduceRequestsTotal = ProduceRequestsSuccess +
\* ProduceRequestsError on every client with metrics, and on the totals
\* aggregated over the clients.
C31_MetricsCountAll ==
    /\ \A c \in KafkaClients : RequestsAddUp(fout.metrics[c])
    /\ RequestsAddUp(fout.total)

\* Count, Min, Max and the bucket counts of a and b are equal
SameButSums(a, b) ==
    /\ a.x.c.Count = b.x.c.Count
    /\ a.x.c.Min = b.x.c.Min /\ a.x.minLo = b.x.minLo
    /\ a.x.c.Max = b.x.c.Max /\ a.x.maxLo = b.x.maxLo
    /\ a.Hdata = b.Hdata

\* the float64 Sum of a and b are equal
SameSumF(a, b) == a.x.c.Sum = b.x.c.Sum /\ a.x.sumLo = b.x.sumLo

\* the float64 sumOfSquares of a and b are equal
SameSquares(a, b) ==
    a.x.c.sumOfSquares = b.x.c.sumOfSquares /\ a.x.sqLo = b.x.sqLo

\* the grid part of sumOfSquares grew by (n*g)^2 from the state before
GrewBySquare(st, st2, g, n) ==
    st2.x.c.sumOfSquares = st.x.c.sumOfSquares + (n * g) * (n * g)

C33_SlidingWindow ==
    LET pts == fout.Points
        kept == IF fout.made > maxPoints THEN maxPoints ELSE fout.made
    IN  /\ Len(pts) = kept
        /\ \A i \in 1 .. Len(pts) : pts[i].Value = fout.made - kept + i
        /\ \A i \in 1 .. (Len(pts) - 1) : pts[i].Time <= pts[i + 1].Time

\* C33 witness: more than 200 points were added, one per tick, and the series
\* holds the last 200
C33_Witness ==
    /\ fin.per = 1 /\ fout.made > maxPoints
    /\ Len(fout.Points) = maxPoints /\ fout.Points[1].Value = fout.made - maxPoints + 1

(***************************************************************************)
(* Claims about a publish that runs together with an unsubscribe.          *)
(***************************************************************************)
\* the publisher holds channel c, read from the backing array, and c was closed
\* by removeSubscriber in between: its next step is the send
SendsOnClosed(c) == pub.phase = "send" /\ pub.cur = c /\ chans[c].closed

\* C34: no interleaving of notifySubscribers with a concurrent removeSubscriber
\* of a subscriber of the same runID makes the publisher send on a closed
\* channel: the publisher never holds a closed channel to send on, and no
\* publish has panicked (in the monitor goroutine or in the Handler).
C34_NoSendOnClosed ==
    /\ \A c \in Clients : ~SendsOnClosed(c)
    /\ ~crashed
    /\ hpc # "aborted"

\* C35: when a subscriber of the runID unsubscribes while a publish is under
\* way, every other subscriber of that runID is offered the snapshot exactly
\* once: no subscriber is offered one snapshot twice, and a subscriber that was
\* registered when the publish began and has not left is not skipped.
C35_OfferedExactlyOnce ==
    \A c \in Clients :
        /\ offers[c].n <= 1
        /\ (pub.phase = "off" /\ StillSubscribed(c)) => offers[c].n = 1

(***************************************************************************)
(* Claims about the snapshots of one run over time.                        *)
(***************************************************************************)
\* C36: once the terminal snapshot of the run has been published, no snapshot
\* with status "running" is published or stored afterwards: the monitor
\* goroutine has exited before the final publish, nothing but the terminal
\* snapshot is being published, and the progress store holds the terminal
\* snapshot until the eviction removes the entry.
C36_TerminalStays ==
    terminal # NoSnap =>
        /\ IsTerminal(terminal)
        /\ mpc = "exited"
        /\ pub.snap \in {NoSnap, terminal}
        /\ store = IF hpc = "evicted" THEN NoSnap ELSE terminal

\* the run ticked, ended, and an observer has read the terminal snapshot from
\* its channel while the store still holds it
C36_Witness ==
    /\ hpc = "done" /\ nticks >= 1
    /\ store = terminal
    /\ \E c \in Clients : last[c] = terminal

\* p <= q for two percentages kept as quotients
PercentNotAbove(p, q) == p.num * q.den <= q.num * p.den

\* C37: over the successive snapshots published for one run (the running ones,
\* then the terminal one) progressPercent never decreases.
C37_PercentNeverDecreases ==
    [][mon = "running" =>
          PercentNotAbove(progress.ProgressPercent, progress'.ProgressPercent)]_vars

\* the object that pointer p refers to holds what it held when p was handed over
Unchanged(p) == fout.heap[p.ref] = p.was

\* C38: a snapshot is immutable once published: the snapshot in the store, the
\* snapshots queued to the subscriber and the snapshot a reader holds keep the
\* status, counters and elapsedSeconds they were published with, whatever the
\* later ticks and the final update do.
C38_PublishedImmutable ==
    fpc # "idle" =>
        /\ Unchanged(fout.store)
        /\ \A k \in 1 .. Len(fout.queue) : Unchanged(fout.queue[k])
        /\ Unchanged(fout.read)

(***************************************************************************)
(* Claim about the width of the bucket cells.                              *)
(***************************************************************************)
\* every value recorded into the wide histogram is 0 and falls into its cell
\* 0: the values recorded into that bucket are its Count
WideCellIsRecorded ==
    /\ wide.cell \div Block = wide.CountHi
    /\ wide.cell % Block = wide.CountLo

\* C39: bucket counts never wrap around: after any sequence of RecordN(v, n),
\* n >= 0, and of Transfer every bucket count is non-negative and is the
\* number of values recorded into the bucket, also when more than 2^31 - 1
\* values fall into one bucket.
C39_BucketsNeverWrap ==
    /\ \A s \in Slots : \A i \in 0 .. (numBuckets - 1) : hists[s].Hdata[i] >= 0
    /\ wide.cell >= 0 /\ WideCellIsRecorded

====
